---- MODULE Spec2Model ----
(***************************************************************************)
(* A model of the AI-Terminal backend (src/app.py): the natural-language   *)
(* to command pipeline (intent matcher, command builder, oracle fallback,  *)
(* security validation, executor) and the per-session context store.       *)
(*                                                                         *)
(* Text is modelled as TLA+ strings handled character by character         *)
(* (Len, SubSeq and \o on strings), so that searching, lower-casing,       *)
(* trimming and regular-expression matching are computed, not assumed.     *)
(* The emoji that prefix the program's literal markers are left out of the *)
(* marker strings; the rest of each marker is kept verbatim.               *)
(***************************************************************************)
EXTENDS Integers, Sequences, FiniteSets, TLC

(***************************************************************************)
(* Strings                                                                 *)
(***************************************************************************)

\* Python's None
None == "<None>"

\* s[i] as a one-character string (i in 1..Len(s))
CharAt(s, i) == SubSeq(s, i, i)

\* s[i-1 : j-1] clipped to the string, like a Python slice
Slice(s, i, j) == IF i > j \/ i > Len(s) THEN ""
                  ELSE SubSeq(s, i, IF j > Len(s) THEN Len(s) ELSE j)

UpperChars == "ABCDEFGHIJKLMNOPQRSTUVWXYZ"
LowerChars == "abcdefghijklmnopqrstuvwxyz"

LowerChar(c) ==
    IF \E i \in 1..26 : CharAt(UpperChars, i) = c
    THEN CharAt(LowerChars, CHOOSE i \in 1..26 : CharAt(UpperChars, i) = c)
    ELSE c

\* the characters i..j of s lower-cased (split in halves: long commands stay shallow)
RECURSIVE LowerRange(_, _, _)
LowerRange(s, i, j) ==
    IF i > j THEN ""
    ELSE IF i = j THEN LowerChar(CharAt(s, i))
    ELSE LET m == (i + j) \div 2 IN LowerRange(s, i, m) \o LowerRange(s, m + 1, j)

\* str.lower()
ToLower(s) == LowerRange(s, 1, Len(s))

IsSpace(c) == c \in {" ", "\t", "\n", "\r"}

IsWordChar(c) ==
    \/ \E i \in 1..26 : CharAt(UpperChars, i) = c \/ CharAt(LowerChars, i) = c
    \/ c \in {"0", "1", "2", "3", "4", "5", "6", "7", "8", "9", "_"}

Min(S) == CHOOSE m \in S : \A n \in S : m <= n
Max(S) == 0 - Min({0 - n : n \in S})

\* the first position >= i that holds no whitespace (Len(s) + 1 when there is none)
FirstNonSpace(s, i) ==
    Min({Len(s) + 1} \cup {k \in i..Len(s) : ~IsSpace(CharAt(s, k))})

\* the last position <= j that holds no whitespace (0 when there is none)
LastNonSpace(s, j) ==
    Max({0} \cup {k \in 1..j : ~IsSpace(CharAt(s, k))})

\* str.strip()
Strip(s) == Slice(s, FirstNonSpace(s, 1), LastNonSpace(s, Len(s)))

\* s.startswith(p)
StartsWith(s, p) == Len(p) <= Len(s) /\ SubSeq(s, 1, Len(p)) = p

\* p occurs in s at position i
OccursAt(s, p, i) == i + Len(p) - 1 <= Len(s) /\ SubSeq(s, i, i + Len(p) - 1) = p

\* Python's (p in s)
Contains(s, p) == \E i \in 1..(Len(s) - Len(p) + 1) : OccursAt(s, p, i)

\* c * n
RECURSIVE Repeat(_, _)
Repeat(c, n) ==
    IF n = 0 THEN ""
    ELSE LET h == Repeat(c, n \div 2) IN
         IF n % 2 = 0 THEN h \o h ELSE h \o h \o c

\* end (exclusive) of the run of non-space characters starting at i
TokenEnd(s, i) ==
    Min({Len(s) + 1} \cup {k \in i..Len(s) : IsSpace(CharAt(s, k))})

\* str.split(): the whitespace-delimited tokens of s, from position i
RECURSIVE SplitFrom(_, _)
SplitFrom(s, i) ==
    LET b == FirstNonSpace(s, i) IN
    IF b > Len(s) THEN <<>>
    ELSE LET e == TokenEnd(s, b) IN <<SubSeq(s, b, e - 1)>> \o SplitFrom(s, e)

Split(s) == SplitFrom(s, 1)

\* the first whitespace-delimited token ('' when there is none)
FirstToken(s) == LET p == Split(s) IN IF p = <<>> THEN "" ELSE p[1]

(***************************************************************************)
(* Security validator: validate_command_security                           *)
(***************************************************************************)

\* the length limit of validate_command_security
MaxCommandLength == 500

dangerous_patterns == <<
    "rm -rf /", "del /f /s /q c:", "format c:", "fdisk", "mkfs",
    "shutdown", "reboot", "halt", "poweroff", "init 0", "init 6",
    "chmod 777 /", "> /dev/sda", "dd if=/dev/zero", "killall",
    "pkill -9", "kill -9 -1", "forkbomb", ":(){ :|:& };:",
    "sudo rm", "sudo chmod", "sudo chown" >>

\* the patterns (by index, in list order) that occur in the lower-cased command
DangerousHits(command) ==
    LET command_lower == ToLower(command) IN
    {k \in 1..Len(dangerous_patterns) : Contains(command_lower, dangerous_patterns[k])}

\* a variant that compares the fragments with the command as typed (no lower-casing)
validate_case_sensitive(command) ==
    IF command = "" THEN [safe |-> FALSE, reason |-> "Empty command"]
    ELSE LET hits == {k \in 1..Len(dangerous_patterns) :
                        Contains(command, dangerous_patterns[k])} IN
         IF hits # {}
         THEN [safe |-> FALSE,
               reason |-> "Blocked dangerous command: " \o dangerous_patterns[Min(hits)]]
         ELSE IF Len(command) > MaxCommandLength
         THEN [safe |-> FALSE, reason |-> "Command too long"]
         ELSE [safe |-> TRUE, reason |-> None]

\* (is_safe, error_msg): empty, then the first dangerous pattern found, then length
validate_command_security(command) ==
    IF command = "" THEN [safe |-> FALSE, reason |-> "Empty command"]
    ELSE LET hits == DangerousHits(command) IN
         IF hits # {}
         THEN [safe |-> FALSE,
               reason |-> "Blocked dangerous command: " \o dangerous_patterns[Min(hits)]]
         ELSE IF Len(command) > MaxCommandLength
         THEN [safe |-> FALSE, reason |-> "Command too long"]
         ELSE [safe |-> TRUE, reason |-> None]

(***************************************************************************)
(* Regular expressions (the subset COMMAND_PATTERNS uses), matched the way *)
(* Python's re.search does: leftmost start, alternatives and quantifiers   *)
(* tried in priority order with backtracking.  A match result is the       *)
(* position after the match and the captured groups.                       *)
(***************************************************************************)

Lit(s)    == [t |-> "lit", s |-> s]          \* literal text
Alt(xs)   == [t |-> "alt", xs |-> xs]        \* (?:a|b|...)
Cat(xs)   == [t |-> "cat", xs |-> xs]        \* a sequence inside a group
Opt(x)    == [t |-> "opt", x |-> x]          \* x?  (greedy)
Ws1       == [t |-> "ws1"]                   \* \s+ (greedy)
Ws0       == [t |-> "ws0"]                   \* \s* (greedy)
CapLazy   == [t |-> "capLazy"]               \* (.+?)
CapGreedy == [t |-> "capGreedy"]             \* (.+)

\* (?:w1|w2|...) for literal words
W(ws) == Alt([k \in 1..Len(ws) |-> Lit(ws[k])])

NoMatch == [e |-> 0, caps |-> <<>>]

\* number of whitespace characters starting at i
SpaceRun(s, i) == FirstNonSpace(s, i) - i

\* number of characters other than newline starting at i ('.' does not match '\n')
DotRun(s, i) == Min({Len(s) + 1} \cup {k \in i..Len(s) : CharAt(s, k) = "\n"}) - i

\* re.IGNORECASE: the literal (written in lower case in the table) against the text
LitAt(s, i, lit) == i + Len(lit) - 1 <= Len(s) /\ ToLower(SubSeq(s, i, i + Len(lit) - 1)) = lit

\* every way re matches s at position i, in the order backtracking tries them
RECURSIVE MatchRe(_, _, _)
RECURSIVE MatchCat(_, _, _, _)
RECURSIVE MatchAlt(_, _, _, _)
RECURSIVE Extend(_, _, _, _, _)

MatchRe(re, s, i) ==
    CASE re.t = "lit" -> IF LitAt(s, i, re.s) THEN <<[e |-> i + Len(re.s), caps |-> <<>>]>> ELSE <<>>
      [] re.t = "ws1" -> LET n == SpaceRun(s, i) IN
                         [j \in 1..n |-> [e |-> i + n - j + 1, caps |-> <<>>]]
      [] re.t = "ws0" -> LET n == SpaceRun(s, i) IN
                         [j \in 1..(n + 1) |-> [e |-> i + n - j + 1, caps |-> <<>>]]
      [] re.t = "capLazy" -> LET n == DotRun(s, i) IN
                         [j \in 1..n |-> [e |-> i + j, caps |-> <<SubSeq(s, i, i + j - 1)>>]]
      [] re.t = "capGreedy" -> LET n == DotRun(s, i) IN
                         [j \in 1..n |-> [e |-> i + n - j + 1, caps |-> <<SubSeq(s, i, i + n - j)>>]]
      [] re.t = "opt" -> MatchRe(re.x, s, i) \o <<[e |-> i, caps |-> <<>>]>>
      [] re.t = "alt" -> MatchAlt(re.xs, 1, s, i)
      [] re.t = "cat" -> MatchCat(re.xs, 1, s, i)

MatchAlt(xs, k, s, i) ==
    IF k > Len(xs) THEN <<>> ELSE MatchRe(xs[k], s, i) \o MatchAlt(xs, k + 1, s, i)

\* the candidates cands[j..] of element k, each continued with elements k+1..
Extend(cands, j, xs, k, s) ==
    IF j > Len(cands) THEN <<>>
    ELSE LET rest == MatchCat(xs, k + 1, s, cands[j].e) IN
         [m \in 1..Len(rest) |-> [e |-> rest[m].e, caps |-> cands[j].caps \o rest[m].caps]]
         \o Extend(cands, j + 1, xs, k, s)

MatchCat(xs, k, s, i) ==
    IF k > Len(xs) THEN <<[e |-> i, caps |-> <<>>]>>
    ELSE Extend(MatchRe(xs[k], s, i), 1, xs, k, s)

\* the first way (in backtracking order) the pattern xs[k..] matches s at i, or NoMatch
RECURSIVE FirstCat(_, _, _, _)
RECURSIVE TryCands(_, _, _, _, _)

FirstCat(xs, k, s, i) ==
    IF k > Len(xs) THEN [e |-> i, caps |-> <<>>]
    ELSE TryCands(MatchRe(xs[k], s, i), 1, xs, k, s)

TryCands(cands, j, xs, k, s) ==
    IF j > Len(cands) THEN NoMatch
    ELSE LET r == FirstCat(xs, k + 1, s, cands[j].e) IN
         IF r.e # 0 THEN [e |-> r.e, caps |-> cands[j].caps \o r.caps]
         ELSE TryCands(cands, j + 1, xs, k, s)

RECURSIVE SearchFrom(_, _, _)
SearchFrom(pattern, s, i) ==
    IF i > Len(s) + 1 THEN NoMatch
    ELSE LET r == FirstCat(pattern, 1, s, i) IN
         IF r.e # 0 THEN r ELSE SearchFrom(pattern, s, i + 1)

\* re.search(pattern, s, re.IGNORECASE): NoMatch, or the leftmost match
re_search(pattern, s) == SearchFrom(pattern, s, 1)

(***************************************************************************)
(* Pattern library: COMMAND_PATTERNS, in declared order                    *)
(***************************************************************************)

\* list_files
Pat_list_files == <<
    \* (?:show|list|display|see|view)\s+(?:all\s+)?files?
    <<Alt(<<Lit("show"), Lit("list"), Lit("display"), Lit("see"), Lit("view")>>), Ws1,
      Opt(Cat(<<Lit("all"), Ws1>>)), Lit("file"), Opt(Lit("s"))>>,
    \* (?:what\'?s|whats)\s+(?:in\s+)?(?:this\s+)?(?:folder|directory)
    <<Alt(<<Cat(<<Lit("what"), Opt(Lit("'")), Lit("s")>>), Lit("whats")>>), Ws1,
      Opt(Cat(<<Lit("in"), Ws1>>)), Opt(Cat(<<Lit("this"), Ws1>>)), Alt(<<Lit("folder"),
      Lit("directory")>>)>>,
    \* ls\s*(?:-la?)?
    <<Lit("ls"), Ws0, Opt(Cat(<<Lit("-l"), Opt(Lit("a"))>>))>>,
    \* dir(?:\s+/a)?
    <<Lit("dir"), Opt(Cat(<<Ws1, Lit("/a")>>))>>,
    \* (?:show|list)\s+contents?
    <<Alt(<<Lit("show"), Lit("list")>>), Ws1, Lit("content"), Opt(Lit("s"))>>,
    \* (?:show|list)\s+everything
    <<Alt(<<Lit("show"), Lit("list")>>), Ws1, Lit("everything")>>
    >>

\* list_hidden
Pat_list_hidden == <<
    \* (?:show|list|display)\s+hidden\s+files?
    <<Alt(<<Lit("show"), Lit("list"), Lit("display")>>), Ws1, Lit("hidden"), Ws1, Lit("file"),
      Opt(Lit("s"))>>,
    \* (?:show|list)\s+(?:all\s+)?files?\s+including\s+hidden
    <<Alt(<<Lit("show"), Lit("list")>>), Ws1, Opt(Cat(<<Lit("all"), Ws1>>)), Lit("file"),
      Opt(Lit("s")), Ws1, Lit("including"), Ws1, Lit("hidden")>>,
    \* ls\s+-a
    <<Lit("ls"), Ws1, Lit("-a")>>,
    \* dir\s+/a
    <<Lit("dir"), Ws1, Lit("/a")>>
    >>

\* count_files
Pat_count_files == <<
    \* (?:count|how many)\s+files?
    <<Alt(<<Lit("count"), Lit("how many")>>), Ws1, Lit("file"), Opt(Lit("s"))>>,
    \* number\s+of\s+files?
    <<Lit("number"), Ws1, Lit("of"), Ws1, Lit("file"), Opt(Lit("s"))>>,
    \* file\s+count
    <<Lit("file"), Ws1, Lit("count")>>
    >>

\* find_files
Pat_find_files == <<
    \* find\s+(.+?)\s+files?
    <<Lit("find"), Ws1, CapLazy, Ws1, Lit("file"), Opt(Lit("s"))>>,
    \* (?:search|look)\s+for\s+(.+?)\s+files?
    <<Alt(<<Lit("search"), Lit("look")>>), Ws1, Lit("for"), Ws1, CapLazy, Ws1, Lit("file"),
      Opt(Lit("s"))>>,
    \* files?\s+with\s+(.+?)
    <<Lit("file"), Opt(Lit("s")), Ws1, Lit("with"), Ws1, CapLazy>>,
    \* (.+?)\s+files?
    <<CapLazy, Ws1, Lit("file"), Opt(Lit("s"))>>
    >>

\* disk_usage
Pat_disk_usage == <<
    \* (?:disk|storage|space)\s+usage
    <<Alt(<<Lit("disk"), Lit("storage"), Lit("space")>>), Ws1, Lit("usage")>>,
    \* how\s+much\s+space
    <<Lit("how"), Ws1, Lit("much"), Ws1, Lit("space")>>,
    \* free\s+space
    <<Lit("free"), Ws1, Lit("space")>>,
    \* disk\s+space
    <<Lit("disk"), Ws1, Lit("space")>>
    >>

\* file_size
Pat_file_size == <<
    \* size\s+of\s+(.+)
    <<Lit("size"), Ws1, Lit("of"), Ws1, CapGreedy>>,
    \* how\s+big\s+is\s+(.+)
    <<Lit("how"), Ws1, Lit("big"), Ws1, Lit("is"), Ws1, CapGreedy>>,
    \* (.+)\s+size
    <<CapGreedy, Ws1, Lit("size")>>
    >>

\* create_file
Pat_create_file == <<
    \* (?:create|make|new)\s+(?:file|document)\s+(.+)
    <<Alt(<<Lit("create"), Lit("make"), Lit("new")>>), Ws1, Alt(<<Lit("file"),
      Lit("document")>>), Ws1, CapGreedy>>,
    \* touch\s+(.+)
    <<Lit("touch"), Ws1, CapGreedy>>
    >>

\* change_directory
Pat_change_directory == <<
    \* (?:go|change|switch|move|navigate)\s+(?:to|into|inside)\s+(.+)
    <<Alt(<<Lit("go"), Lit("change"), Lit("switch"), Lit("move"), Lit("navigate")>>), Ws1,
      Alt(<<Lit("to"), Lit("into"), Lit("inside")>>), Ws1, CapGreedy>>,
    \* (?:cd|chdir)\s+(.+)
    <<Alt(<<Lit("cd"), Lit("chdir")>>), Ws1, CapGreedy>>,
    \* (?:enter|open)\s+(?:folder|directory|dir)\s+(.+)
    <<Alt(<<Lit("enter"), Lit("open")>>), Ws1, Alt(<<Lit("folder"), Lit("directory"),
      Lit("dir")>>), Ws1, CapGreedy>>,
    \* (?:go|move)\s+(?:into|inside|to)\s+(?:the\s+)?(.+?)(?:\s+(?:folder|directory|dir))?
    <<Alt(<<Lit("go"), Lit("move")>>), Ws1, Alt(<<Lit("into"), Lit("inside"), Lit("to")>>),
      Ws1, Opt(Cat(<<Lit("the"), Ws1>>)), CapLazy, Opt(Cat(<<Ws1, Alt(<<Lit("folder"),
      Lit("directory"), Lit("dir")>>)>>))>>
    >>

\* create_directory
Pat_create_directory == <<
    \* (?:create|make|new)\s+(?:folder|directory|dir)\s+(.+)
    <<Alt(<<Lit("create"), Lit("make"), Lit("new")>>), Ws1, Alt(<<Lit("folder"),
      Lit("directory"), Lit("dir")>>), Ws1, CapGreedy>>,
    \* mkdir\s+(.+)
    <<Lit("mkdir"), Ws1, CapGreedy>>
    >>

\* copy_file
Pat_copy_file == <<
    \* copy\s+(.+?)\s+to\s+(.+)
    <<Lit("copy"), Ws1, CapLazy, Ws1, Lit("to"), Ws1, CapGreedy>>,
    \* cp\s+(.+?)\s+(.+)
    <<Lit("cp"), Ws1, CapLazy, Ws1, CapGreedy>>
    >>

\* move_file
Pat_move_file == <<
    \* (?:move|rename)\s+(.+?)\s+to\s+(.+)
    <<Alt(<<Lit("move"), Lit("rename")>>), Ws1, CapLazy, Ws1, Lit("to"), Ws1, CapGreedy>>,
    \* mv\s+(.+?)\s+(.+)
    <<Lit("mv"), Ws1, CapLazy, Ws1, CapGreedy>>
    >>

\* delete_file
Pat_delete_file == <<
    \* (?:delete|remove)\s+(?:file\s+)?(.+)
    <<Alt(<<Lit("delete"), Lit("remove")>>), Ws1, Opt(Cat(<<Lit("file"), Ws1>>)), CapGreedy>>,
    \* rm\s+(.+)
    <<Lit("rm"), Ws1, CapGreedy>>
    >>

\* show_content
Pat_show_content == <<
    \* (?:show|display|read|view|cat)\s+(?:contents?\s+of\s+)?(.+)
    <<Alt(<<Lit("show"), Lit("display"), Lit("read"), Lit("view"), Lit("cat")>>), Ws1,
      Opt(Cat(<<Lit("content"), Opt(Lit("s")), Ws1, Lit("of"), Ws1>>)), CapGreedy>>,
    \* what\'?s\s+in\s+(.+)
    <<Lit("what"), Opt(Lit("'")), Lit("s"), Ws1, Lit("in"), Ws1, CapGreedy>>,
    \* cat\s+(.+)
    <<Lit("cat"), Ws1, CapGreedy>>
    >>

\* system_info
Pat_system_info == <<
    \* system\s+info(?:rmation)?
    <<Lit("system"), Ws1, Lit("info"), Opt(Lit("rmation"))>>,
    \* computer\s+info
    <<Lit("computer"), Ws1, Lit("info")>>,
    \* hardware\s+info
    <<Lit("hardware"), Ws1, Lit("info")>>,
    \* specs?
    <<Lit("spec"), Opt(Lit("s"))>>
    >>

\* processes
Pat_processes == <<
    \* (?:show|list)\s+processes?
    <<Alt(<<Lit("show"), Lit("list")>>), Ws1, Lit("processe"), Opt(Lit("s"))>>,
    \* running\s+programs?
    <<Lit("running"), Ws1, Lit("program"), Opt(Lit("s"))>>,
    \* what\'?s\s+running
    <<Lit("what"), Opt(Lit("'")), Lit("s"), Ws1, Lit("running")>>,
    \* ps(?:\s+aux)?
    <<Lit("ps"), Opt(Cat(<<Ws1, Lit("aux")>>))>>,
    \* task\s+list
    <<Lit("task"), Ws1, Lit("list")>>
    >>

\* network_info
Pat_network_info == <<
    \* (?:network|ip)\s+info
    <<Alt(<<Lit("network"), Lit("ip")>>), Ws1, Lit("info")>>,
    \* ip\s+address
    <<Lit("ip"), Ws1, Lit("address")>>,
    \* network\s+config
    <<Lit("network"), Ws1, Lit("config")>>,
    \* ifconfig
    <<Lit("ifconfig")>>
    >>

\* one entry of COMMAND_PATTERNS, without its patterns
Intent(name, windows_cmd, unix_cmd, description, builtin_override) ==
    [name |-> name, windows_cmd |-> windows_cmd,
     unix_cmd |-> unix_cmd, description |-> description,
     builtin_override |-> builtin_override]

\* the table; a Python dict iterates in insertion order (the patterns of entry i are
\* Patterns(i))
COMMAND_PATTERNS == <<
    Intent("list_files", "dir", "ls -la",
           "List all files and directories", FALSE),
    Intent("list_hidden", "dir /a", "ls -la",
           "List all files including hidden ones", FALSE),
    Intent("count_files", "dir /b | find /c /v \"\"", "ls -1 | wc -l",
           "Count files in directory", FALSE),
    Intent("find_files", "dir *{ext} /s", "find . -name \"*{ext}*\"",
           "Find files by extension or name", FALSE),
    Intent("disk_usage", "dir", "df -h",
           "Show disk usage", FALSE),
    Intent("file_size", "dir \"{filename}\"", "ls -lh \"{filename}\"",
           "Show file size", FALSE),
    Intent("create_file", "type nul > \"{filename}\"", "touch \"{filename}\"",
           "Create a new file", FALSE),
    Intent("change_directory", "cd /d \"{dirname}\"", "cd \"{dirname}\"",
           "Change to directory", TRUE),
    Intent("create_directory", "mkdir \"{dirname}\"", "mkdir \"{dirname}\"",
           "Create a new directory", FALSE),
    Intent("copy_file", "copy \"{source}\" \"{dest}\"", "cp \"{source}\" \"{dest}\"",
           "Copy file or directory", FALSE),
    Intent("move_file", "move \"{source}\" \"{dest}\"", "mv \"{source}\" \"{dest}\"",
           "Move or rename file", FALSE),
    Intent("delete_file", "del \"{filename}\"", "rm \"{filename}\"",
           "Delete file", FALSE),
    Intent("show_content", "type \"{filename}\"", "cat \"{filename}\"",
           "Show file contents", FALSE),
    Intent("system_info", "systeminfo", "uname -a && lscpu",
           "Show system information", FALSE),
    Intent("processes", "tasklist", "ps aux",
           "List running processes", FALSE),
    Intent("network_info", "ipconfig", "ifconfig",
           "Show network information", FALSE) >>

\* COMMAND_PATTERNS[...]['patterns'] of the entry at position i
Patterns(i) ==
    CASE i = 1 -> Pat_list_files
      [] i = 2 -> Pat_list_hidden
      [] i = 3 -> Pat_count_files
      [] i = 4 -> Pat_find_files
      [] i = 5 -> Pat_disk_usage
      [] i = 6 -> Pat_file_size
      [] i = 7 -> Pat_create_file
      [] i = 8 -> Pat_change_directory
      [] i = 9 -> Pat_create_directory
      [] i = 10 -> Pat_copy_file
      [] i = 11 -> Pat_move_file
      [] i = 12 -> Pat_delete_file
      [] i = 13 -> Pat_show_content
      [] i = 14 -> Pat_system_info
      [] i = 15 -> Pat_processes
      [] i = 16 -> Pat_network_info

\* the result of match_command_pattern when nothing matches: (None, [], {})
NoIntent == [cmd_type |-> None, params |-> <<>>, idx |-> 0]

\* extract_parameters_from_query: match.groups() of the pattern on the query
extract_parameters_from_query(query, pattern) ==
    LET m == re_search(pattern, query) IN IF m.e # 0 THEN m.caps ELSE <<>>

\* the first pattern, in list order, of intent i that matches q; 0 when none does
FirstPattern(i, q) ==
    LET ps == Patterns(i)
        hit == {k \in 1..Len(ps) : re_search(ps[k], q).e # 0}
    IN IF hit = {} THEN 0 ELSE Min(hit)

\* match_command_pattern: (cmd_type, params, cmd_info) of the first intent, in table
\* order, one of whose patterns matches the lower-cased, stripped query; idx is the
\* intent's position in the table (cmd_info is COMMAND_PATTERNS[idx])
match_command_pattern(query) ==
    LET q == Strip(ToLower(query))
        hit == {i \in 1..Len(COMMAND_PATTERNS) : FirstPattern(i, q) # 0}
    IN IF hit = {} THEN NoIntent
       ELSE LET i == Min(hit) IN
            [cmd_type |-> COMMAND_PATTERNS[i].name,
             params |-> extract_parameters_from_query(q, Patterns(i)[FirstPattern(i, q)]),
             idx |-> i]

(***************************************************************************)
(* Command builder: build_smart_command                                    *)
(***************************************************************************)

\* the first position >= i where old occurs in s, 0 when there is none
FindFrom(s, old, i) ==
    LET hit == {k \in i..(Len(s) - Len(old) + 1) : OccursAt(s, old, k)}
    IN IF hit = {} THEN 0 ELSE Min(hit)

\* s.replace(old, new), from position i
RECURSIVE ReplaceFrom(_, _, _, _)
ReplaceFrom(s, old, new, i) ==
    LET k == FindFrom(s, old, i) IN
    IF k = 0 THEN Slice(s, i, Len(s))
    ELSE Slice(s, i, k - 1) \o new \o ReplaceFrom(s, old, new, k + Len(old))

Replace(s, old, new) == ReplaceFrom(s, old, new, 1)

\* template.format(name=value) for a template whose only replacement field is {name}
Format1(template, name, value) == Replace(template, "{" \o name \o "}", value)

\* template.format(n1=v1, n2=v2): one pass over the template, the values are not re-read
Format2(template, n1, v1, n2, v2) ==
    LET k == FindFrom(template, "{" \o n2 \o "}", 1) IN
    IF k = 0 THEN Format1(template, n1, v1)
    ELSE Format1(Slice(template, 1, k - 1), n1, v1) \o v2
         \o Format1(Slice(template, k + Len(n2) + 2, Len(template)), n1, v1)

\* the file-type coercion of the find_files branch
FindExt(p) ==
    LET ext == IF Contains(ToLower(p), "python") THEN "*.py"
               ELSE IF Contains(ToLower(p), "text") THEN "*.txt"
               ELSE IF Contains(ToLower(p), "image") THEN "*.jpg"
               ELSE IF Contains(ToLower(p), "document") THEN "*.doc*"
               ELSE IF ~StartsWith(p, "*") THEN "*" \o p \o "*"
               ELSE p
    IN Replace(ext, "*", "")

\* build_smart_command(cmd_type, params, cmd_info): None for a builtin_override intent,
\* else the platform's template, rendered only when params is not empty
build_smart_command(cmd_type, params, cmd_info, is_windows) ==
    IF cmd_info.builtin_override THEN None
    ELSE LET base_cmd == IF is_windows THEN cmd_info.windows_cmd ELSE cmd_info.unix_cmd IN
         IF params = <<>> THEN base_cmd
         ELSE IF cmd_type = "find_files"
              THEN Format1(base_cmd, "ext", FindExt(params[1]))
         ELSE IF cmd_type \in {"create_file", "show_content", "file_size", "delete_file"}
              THEN Format1(base_cmd, "filename", params[1])
         ELSE IF cmd_type \in {"create_directory", "change_directory"}
              THEN Format1(base_cmd, "dirname", params[1])
         ELSE IF cmd_type \in {"copy_file", "move_file"}
              THEN Format2(base_cmd, "source", params[1],
                           "dest", IF Len(params) > 1 THEN params[2] ELSE "destination")
         ELSE base_cmd

(***************************************************************************)
(* Oracle response clean-up (get_ai_command, after generate_content)       *)
(***************************************************************************)

\* the backtick: the string syntax of TLA+ has no backtick, "^" stands for it
Backtick == "^"
Fence == Backtick \o Backtick \o Backtick

\* end (exclusive) of the run of word characters starting at i
WordEnd(s, i) ==
    Min({Len(s) + 1} \cup {k \in i..Len(s) : ~IsWordChar(CharAt(s, k))})

\* re.sub(fence [\w]* \n?, '', s), from position i: each fence, the word characters
\* after it and one newline are removed
RECURSIVE StripFences(_, _)
StripFences(s, i) ==
    LET k == FindFrom(s, Fence, i) IN
    IF k = 0 THEN Slice(s, i, Len(s))
    ELSE LET w == WordEnd(s, k + 3)
             n == IF w <= Len(s) /\ CharAt(s, w) = "\n" THEN w + 1 ELSE w
         IN Slice(s, i, k - 1) \o StripFences(s, n)

\* response.text.strip(), the fence markers removed, the backticks removed, stripped
CleanResponse(text) == Strip(Replace(StripFences(Strip(text), 1), Backtick, ""))


(***************************************************************************)
(* Session context store: get_session_context, update_session_context      *)
(***************************************************************************)

\* 'max_history' of a new context
max_history == 10

\* the cap on current_files
MaxCurrentFiles == 20

\* the emoji that marks a line as feedback (one character in the program)
RobotMark == "(robot)"

\* the context get_session_context creates
NewContext ==
    [command_history |-> <<>>, output_history |-> <<>>, current_files |-> <<>>,
     last_operation |-> None, max_history |-> max_history]

\* get_session_context(session_id) on the session map ctxs: the map afterwards
get_session_context(ctxs, session_id) ==
    IF session_id \in DOMAIN ctxs THEN ctxs
    ELSE [k \in DOMAIN ctxs \cup {session_id} |->
            IF k = session_id THEN NewContext ELSE ctxs[k]]

\* s.split('\n'), from position i
RECURSIVE SplitLinesFrom(_, _)
SplitLinesFrom(s, i) ==
    LET k == FindFrom(s, "\n", i) IN
    IF k = 0 THEN <<Slice(s, i, Len(s))>>
    ELSE <<Slice(s, i, k - 1)>> \o SplitLinesFrom(s, k + 1)

\* ' '.join(parts[k:])
RECURSIVE JoinFrom(_, _)
JoinFrom(parts, k) ==
    IF k > Len(parts) THEN ""
    ELSE IF k = Len(parts) THEN parts[k]
    ELSE parts[k] \o " " \o JoinFrom(parts, k + 1)

\* what one line of a listing adds to files
FilesOfLine(line) ==
    IF Strip(line) # "" /\ ~StartsWith(line, RobotMark)
    THEN IF Contains(line, "<DIR>")
         THEN IF Len(Split(line)) > 1 THEN <<JoinFrom(Split(line), 2)>> ELSE <<>>
         ELSE <<Strip(line)>>
    ELSE <<>>

RECURSIVE FilesOfLines(_, _)
FilesOfLines(lines, k) ==
    IF k > Len(lines) THEN <<>> ELSE FilesOfLine(lines[k]) \o FilesOfLines(lines, k + 1)

\* files[:20]
ParseFiles(output) ==
    LET files == FilesOfLines(SplitLinesFrom(Strip(output), 1), 1)
    IN SubSeq(files, 1, IF Len(files) > MaxCurrentFiles THEN MaxCurrentFiles ELSE Len(files))

\* h[-n:]
LastN(h, n) == IF Len(h) > n THEN SubSeq(h, Len(h) - n + 1, Len(h)) ELSE h

\* h[:n]
FirstN(h, n) == IF Len(h) > n THEN SubSeq(h, 1, n) ELSE h

\* a trim that keeps the oldest entries instead of the newest
TrimOldest(c) ==
    IF Len(c.command_history) > c.max_history
    THEN [c EXCEPT !.command_history = FirstN(@, c.max_history),
                   !.output_history = FirstN(@, c.max_history)]
    ELSE c

\* a trim that forgets the output history
TrimCommandsOnly(c) ==
    IF Len(c.command_history) > c.max_history
    THEN [c EXCEPT !.command_history = LastN(@, c.max_history)]
    ELSE c

\* "Trim history if too long"
Trim(c) ==
    IF Len(c.command_history) > c.max_history
    THEN [c EXCEPT !.command_history = LastN(@, c.max_history),
                   !.output_history = LastN(@, c.max_history)]
    ELSE c

\* the two appends and last_operation
AppendEntry(c, command, output, operation_type, now) ==
    [c EXCEPT !.command_history = Append(@, [command |-> command, timestamp |-> now,
                                              operation_type |-> operation_type]),
              !.output_history = Append(@, output),
              !.last_operation = operation_type]

\* "Update current files list if it's a directory listing"
UpdateFiles(c, output, operation_type) ==
    IF operation_type \in {"list_files", "list_hidden"} /\ output # ""
    THEN [c EXCEPT !.current_files = ParseFiles(output)]
    ELSE c

\* update_session_context(session_id, command, output, operation_type) at time now:
\* the session map afterwards
update_session_context(ctxs, session_id, command, output, operation_type, now) ==
    LET cs == get_session_context(ctxs, session_id) IN
    [cs EXCEPT ![session_id] =
        Trim(UpdateFiles(AppendEntry(@, command, output, operation_type, now),
                         output, operation_type))]

(***************************************************************************)
(* Executor: execute_system_command                                        *)
(*                                                                         *)
(* What the host does is an input: where the executable is found (found)   *)
(* and how subprocess.run ends (run):                                      *)
(*   [kind |-> "exit", returncode, stdout, stderr]  the child exited       *)
(*   [kind |-> "timeout"]            TimeoutExpired, the child was killed  *)
(*   [kind |-> "FileNotFoundError", filename]                              *)
(*   [kind |-> "error", msg]         any other exception                   *)
(***************************************************************************)

\* timeout=30
ExecTimeout == 30

\* the places the executable is looked up, in order; "none": in none of them
common_paths == <<"/bin/", "/usr/bin/", "/usr/local/bin/">>
FoundIn == {"which", "/bin/", "/usr/bin/", "/usr/local/bin/", "none"}

\* one token of shlex.split from position j, acc being the part read so far:
\* [ok, tok, next]; quotes group, a backslash outside quotes escapes one character
RECURSIVE ShlexToken(_, _, _)
ShlexToken(s, j, acc) ==
    IF j > Len(s) \/ IsSpace(CharAt(s, j)) THEN [ok |-> TRUE, tok |-> acc, next |-> j]
    ELSE IF CharAt(s, j) \in {"\"", "'"}
    THEN LET k == FindFrom(s, CharAt(s, j), j + 1) IN
         IF k = 0 THEN [ok |-> FALSE, tok |-> acc, next |-> j]
         ELSE ShlexToken(s, k + 1, acc \o Slice(s, j + 1, k - 1))
    ELSE IF CharAt(s, j) = "\\"
    THEN IF j = Len(s) THEN [ok |-> FALSE, tok |-> acc, next |-> j]
         ELSE ShlexToken(s, j + 2, acc \o CharAt(s, j + 1))
    ELSE LET e == Min({Len(s) + 1} \cup
                      {k \in j..Len(s) : IsSpace(CharAt(s, k))
                                         \/ CharAt(s, k) \in {"\"", "'", "\\"}})
         IN ShlexToken(s, e, acc \o Slice(s, j, e - 1))

\* shlex.split(s) from position i: [ok, parts]; ok is FALSE where shlex raises ValueError
RECURSIVE ShlexFrom(_, _)
ShlexFrom(s, i) ==
    LET b == FirstNonSpace(s, i) IN
    IF b > Len(s) THEN [ok |-> TRUE, parts |-> <<>>]
    ELSE LET t == ShlexToken(s, b, "") IN
         IF ~t.ok THEN [ok |-> FALSE, parts |-> <<>>]
         ELSE LET rest == ShlexFrom(s, t.next) IN
              [ok |-> rest.ok, parts |-> <<t.tok>> \o rest.parts]

shlex_split(s) == ShlexFrom(s, 1)

NotFoundMarker(name) == "Command not found: " \o name
SuccessMarker == "Command executed successfully"
FailureMarker(returncode) == "Command failed (exit code: " \o ToString(returncode) \o ")"
TimeoutMarker == "Command timed out after 30 seconds"
ErrorMarker(msg) == "Error executing command: " \o msg

\* what cmd.exe answers (through shell=True) for a program it cannot resolve
ShellNotFound(command) ==
    [kind |-> "exit", returncode |-> 1, stdout |-> "",
     stderr |-> "'" \o FirstToken(command)
                \o "' is not recognized as an internal or external command,\n"
                \o "operable program or batch file.\n"]

\* a variant that returns the captured text as it is, without .strip()
ResultOfRunUnstripped(run) ==
    IF run.kind = "exit"
    THEN IF run.returncode = 0
         THEN (IF run.stdout # "" THEN run.stdout ELSE SuccessMarker)
         ELSE (IF run.stderr # "" THEN run.stderr ELSE FailureMarker(run.returncode))
    ELSE IF run.kind = "timeout" THEN TimeoutMarker
    ELSE IF run.kind = "FileNotFoundError" THEN NotFoundMarker(run.filename)
    ELSE ErrorMarker(run.msg)

\* the part of execute_system_command after subprocess.run: the returned text
ResultOfRun(run) ==
    IF run.kind = "exit"
    THEN IF run.returncode = 0
         THEN Strip(IF run.stdout # "" THEN run.stdout ELSE SuccessMarker)
         ELSE Strip(IF run.stderr # "" THEN run.stderr ELSE FailureMarker(run.returncode))
    ELSE IF run.kind = "timeout" THEN TimeoutMarker
    ELSE IF run.kind = "FileNotFoundError" THEN NotFoundMarker(run.filename)
    ELSE ErrorMarker(run.msg)

\* the part of execute_system_command before subprocess.run:
\* [spawn |-> TRUE, argv] when subprocess.run is reached, else [spawn |-> FALSE, result]
PrepareRun(command, is_windows, found) ==
    IF is_windows THEN [spawn |-> TRUE, argv |-> <<command>>, result |-> None]
    ELSE LET sp == shlex_split(command) IN
         IF ~sp.ok
         THEN [spawn |-> FALSE, argv |-> <<>>, result |-> ErrorMarker("No closing quotation")]
         ELSE IF sp.parts = <<>>
         THEN [spawn |-> TRUE, argv |-> <<>>, result |-> None]
         ELSE IF found = "none"
         THEN [spawn |-> FALSE, argv |-> sp.parts, result |-> NotFoundMarker(sp.parts[1])]
         ELSE IF found = "which"
         THEN [spawn |-> TRUE, argv |-> sp.parts, result |-> None]
         ELSE [spawn |-> TRUE, argv |-> [sp.parts EXCEPT ![1] = found \o sp.parts[1]],
               result |-> None]

\* how subprocess.run ends for argv, the host answering found and run
RunOutcome(command, argv, is_windows, found, run) ==
    IF is_windows /\ found = "none" THEN ShellNotFound(command)
    ELSE IF ~is_windows /\ argv = <<>>
    THEN [kind |-> "error", msg |-> "list index out of range"]
    ELSE run

\* execute_system_command(command, current_path) in one piece: the text returned
execute_system_command(command, is_windows, found, run) ==
    LET p == PrepareRun(command, is_windows, found) IN
    IF ~p.spawn THEN p.result
    ELSE ResultOfRun(RunOutcome(command, p.argv, is_windows, found, run))

\* a child process exists for the call (subprocess.run started one)
Spawns(command, is_windows, found, run) ==
    LET p == PrepareRun(command, is_windows, found) IN
    p.spawn /\ RunOutcome(command, p.argv, is_windows, found, run).kind \in {"exit", "timeout"}

(***************************************************************************)
(* The host's file system, as the builtins of handle_command see it        *)
(* (os.path.expanduser, os.path.isdir, os.path.join, os.path.abspath,      *)
(* os.listdir, os.stat).  Paths are absolute and '/'-separated.            *)
(***************************************************************************)

\* os.path.expanduser('~')
HomeDir == "/home/u"

\* the directories that exist
Dirs == {"/", "/home", "/home/u", "/home/u/docs"}

\* the entries of each directory, sorted by name as sorted(files) leaves them
DirEntries(d) ==
    IF d = "/home/u"
    THEN << [name |-> ".env", size |-> 64, is_dir |-> FALSE],
            [name |-> "a.txt", size |-> 12, is_dir |-> FALSE],
            [name |-> "b.py", size |-> 340, is_dir |-> FALSE],
            [name |-> "docs", size |-> 4096, is_dir |-> TRUE] >>
    ELSE IF d = "/home" THEN << [name |-> "u", size |-> 4096, is_dir |-> TRUE] >>
    ELSE IF d = "/" THEN << [name |-> "home", size |-> 4096, is_dir |-> TRUE] >>
    ELSE << >>

\* s.split(sep), from position i
RECURSIVE SplitOnFrom(_, _, _)
SplitOnFrom(s, sep, i) ==
    LET k == FindFrom(s, sep, i) IN
    IF k = 0 THEN <<Slice(s, i, Len(s))>>
    ELSE <<Slice(s, i, k - 1)>> \o SplitOnFrom(s, sep, k + Len(sep))

\* sep.join(parts[k:])
RECURSIVE JoinWith(_, _, _)
JoinWith(parts, sep, k) ==
    IF k > Len(parts) THEN ""
    ELSE IF k = Len(parts) THEN parts[k]
    ELSE parts[k] \o sep \o JoinWith(parts, sep, k + 1)

\* os.path.join(a, b)
PathJoin(a, b) ==
    IF StartsWith(b, "/") THEN b
    ELSE IF a = "" \/ CharAt(a, Len(a)) = "/" THEN a \o b
    ELSE a \o "/" \o b

\* the components of a path with '', '.' and '..' resolved
RECURSIVE NormComps(_, _, _)
NormComps(comps, k, acc) ==
    IF k > Len(comps) THEN acc
    ELSE IF comps[k] \in {"", "."} THEN NormComps(comps, k + 1, acc)
    ELSE IF comps[k] = ".."
    THEN NormComps(comps, k + 1, IF acc = <<>> THEN acc ELSE SubSeq(acc, 1, Len(acc) - 1))
    ELSE NormComps(comps, k + 1, Append(acc, comps[k]))

\* os.path.abspath(p) of an absolute path
AbsPath(p) == "/" \o JoinWith(NormComps(SplitOnFrom(p, "/", 1), 1, <<>>), "/", 1)

\* os.path.isdir(p)
IsDir(p) == StartsWith(p, "/") /\ AbsPath(p) \in Dirs

\* f"{size:>8}" and f"{size:>10}"
PadLeft(t, n) == IF Len(t) >= n THEN t ELSE Repeat(" ", n - Len(t)) \o t

\* [f for f in files if not f.startswith('.')]
RECURSIVE Visible(_, _)
Visible(entries, k) ==
    IF k > Len(entries) THEN <<>>
    ELSE (IF StartsWith(entries[k].name, ".") THEN <<>> ELSE <<entries[k]>>)
         \o Visible(entries, k + 1)

(***************************************************************************)
(* State                                                                   *)
(***************************************************************************)

VARIABLES
    AI_ENABLED,        \* module global: the oracle is configured
    IS_WINDOWS,        \* module global: the host platform
    match_cache,       \* match_command_pattern on the queries explored, computed once
    session_contexts,  \* module global: session id -> context
    clock,             \* datetime.now(), as a counter
    log,               \* history: session id -> every (timestamp, command, output) appended
    last,              \* history: the last request handled, its response, what it called
    val,               \* the validator called directly: the command and its verdict
    proc,              \* one call of execute_system_command, step by step
    race,              \* two update_session_context calls, statement by statement
    direct,            \* the matcher and the builder called directly: the calls so far
    mode               \* which scenario is running

configVars == <<AI_ENABLED, IS_WINDOWS, match_cache>>
requestVars == <<session_contexts, clock, log, last>>
scenarioVars == <<val, proc, race, direct>>
vars == <<AI_ENABLED, IS_WINDOWS, match_cache, session_contexts, clock, log, last, val, proc,
         race, direct, mode>>

\* log after an update of session_id
LogAppend(session_id, command, output, now) ==
    LET e == [timestamp |-> now, command |-> command, output |-> output] IN
    [k \in DOMAIN log \cup {session_id} |->
        IF k = session_id
        THEN (IF k \in DOMAIN log THEN log[k] ELSE <<>>) \o <<e>>
        ELSE log[k]]

EmptyMap == [k \in {} |-> None]

\* no request handled yet
NoRequest == [json |-> FALSE, command |-> "", sessionId |-> "", path |-> ""]
NoLast ==
    [request |-> NoRequest,
     oracle |-> [kind |-> "none", text |-> ""],
     response |-> [status |-> 0, kind |-> "none", text |-> "", new_path |-> None],
     trace |-> [matcher_calls |-> 0, builder_calls |-> 0, oracle_called |-> FALSE,
                validated |-> <<>>, executed |-> <<>>, spawned |-> FALSE],
     prompt |-> [kind |-> "none", query |-> "", recent |-> <<>>, files |-> <<>>,
                 more |-> 0, suggestions |-> <<>>, platform |-> ""]]

\* the validator not called yet
NoVal == [checked |-> FALSE, command |-> "", result |-> [safe |-> FALSE, reason |-> None]]

\* no call of execute_system_command under way
NoProc ==
    [pc |-> "idle", command |-> "", argv |-> <<>>, found |-> "none", child |-> "none",
     elapsed |-> 0, out |-> [kind |-> "none"], result |-> None]

\* no racing updates
NoRace == [start |-> "none", map |-> 0, ctxs |-> <<>>, lists |-> <<>>, now |-> 0,
           threads |-> <<>>]

(***************************************************************************)
(* SpecStore: the store driven directly, one call at a time                *)
(***************************************************************************)

\* number of update calls explored
MaxUpdates == 12

StoreSessions == {"default", "tab2"}

\* the calls explored: (session_id, command, output, operation_type)
StoreCalls == {
    [session_id |-> "default", command |-> "ls",
     output |-> "a.txt\nb.py", operation_type |-> "list_files"],
    [session_id |-> "tab2", command |-> "rm \"old.log\"",
     output |-> "", operation_type |-> "delete_file"] }

InitStore ==
    /\ match_cache = EmptyMap
    /\ AI_ENABLED = TRUE
    /\ IS_WINDOWS = FALSE
    /\ session_contexts = EmptyMap
    /\ clock = 0
    /\ log = EmptyMap
    /\ last = NoLast
    /\ val = NoVal /\ proc = NoProc /\ race = NoRace /\ direct = <<>>
    /\ mode = "store"

\* a read of the store (the /context endpoint): get_session_context alone
GetContext(session_id) ==
    /\ mode = "store"
    /\ session_id \notin DOMAIN session_contexts
    /\ session_contexts' = get_session_context(session_contexts, session_id)
    /\ UNCHANGED <<configVars, clock, log, last, scenarioVars, mode>>

\* one call of update_session_context
Update(u) ==
    /\ mode = "store"
    /\ clock < MaxUpdates
    /\ clock' = clock + 1
    /\ session_contexts' = update_session_context(session_contexts, u.session_id,
                              u.command, u.output, u.operation_type, clock + 1)
    /\ log' = LogAppend(u.session_id, u.command, u.output, clock + 1)
    /\ UNCHANGED <<configVars, last, scenarioVars, mode>>

NextStore ==
    \/ \E sid \in StoreSessions : GetContext(sid)
    \/ \E u \in StoreCalls : Update(u)

SpecStore == InitStore /\ [][NextStore]_vars

\* the (timestamp, command, output) triples a context holds, position by position
StoredTriples(c) ==
    [i \in 1..Len(c.command_history) |->
        [timestamp |-> c.command_history[i].timestamp,
         command |-> c.command_history[i].command,
         output |-> c.output_history[i]]]

\* C4: after every completed update, for every session, the command history and the
\* output history have the same length, and that length is at most the maximum
\* history size.
C4_HistoriesEqualAndBounded ==
    \A sid \in DOMAIN session_contexts :
        /\ Len(session_contexts[sid].command_history)
              = Len(session_contexts[sid].output_history)
        /\ Len(session_contexts[sid].command_history) <= max_history

\* a session that was updated more often than the maximum and holds a full history
C4_Witness ==
    \E sid \in DOMAIN session_contexts :
        /\ sid \in DOMAIN log
        /\ Len(log[sid]) > max_history
        /\ Len(session_contexts[sid].command_history) = max_history

\* C5: once a session has been updated more often than the maximum history size M,
\* its command history and output history hold exactly the M most recent entries,
\* in the order they were appended.
C5_MostRecentKept ==
    \A sid \in DOMAIN log :
        Len(log[sid]) > max_history =>
            /\ Len(session_contexts[sid].command_history) = max_history
            /\ Len(session_contexts[sid].output_history) = max_history
            /\ StoredTriples(session_contexts[sid]) = LastN(log[sid], max_history)

\* a session updated at least M + 2 times: two entries were evicted
C5_Witness ==
    \E sid \in DOMAIN log :
        /\ Len(log[sid]) >= max_history + 2
        /\ session_contexts[sid].command_history[1].timestamp
              = log[sid][Len(log[sid]) - max_history + 1].timestamp

(***************************************************************************)
(* SpecValidate: validate_command_security called directly                 *)
(***************************************************************************)

\* program names and argument tails the commands checked are made of
ValPrograms == {"ls", "rm", "cat", "echo", "python", "foo", "frobnicate",
                "shutdown", "SHUTDOWN", "Reboot", "sudo", "mkfs.ext4"}
ValArgs == {"", " -la", " a.txt", " now", " -rf /", " -RF /", " rm x",
            " && halt", " > /dev/sda", " chmod 777 /"}

\* the commands checked: every program with every tail, the empty and the blank
\* command, and commands at and over the length limit, with and without a fragment
ValCommands ==
    {p \o a : p \in ValPrograms, a \in ValArgs}
    \cup {"", "   ",
          Repeat("a", MaxCommandLength), Repeat("a", MaxCommandLength + 1),
          "ls " \o Repeat("a", MaxCommandLength),
          "shutdown " \o Repeat("a", MaxCommandLength)}

\* the permitted program names of the specification's rule (4); the source has no
\* such table: the names the command templates start with stand for it
AllowList ==
    {FirstToken(COMMAND_PATTERNS[i].unix_cmd) : i \in 1..Len(COMMAND_PATTERNS)}
    \cup {FirstToken(COMMAND_PATTERNS[i].windows_cmd) : i \in 1..Len(COMMAND_PATTERNS)}

InitValidate ==
    /\ match_cache = EmptyMap
    /\ AI_ENABLED = TRUE
    /\ IS_WINDOWS = FALSE
    /\ session_contexts = EmptyMap
    /\ clock = 0
    /\ log = EmptyMap
    /\ last = NoLast
    /\ val = NoVal /\ proc = NoProc /\ race = NoRace /\ direct = <<>>
    /\ mode = "validate"

\* one call of validate_command_security
Validate(command) ==
    /\ mode = "validate"
    /\ val' = [checked |-> TRUE, command |-> command,
               result |-> validate_command_security(command)]
    /\ UNCHANGED <<configVars, requestVars, proc, race, direct, mode>>

NextValidate == \E command \in ValCommands : Validate(command)

SpecValidate == InitValidate /\ [][NextValidate]_vars

\* C2: every command whose first whitespace-delimited token is not in the allow-list
\* is found unsafe, with a reason that names the rejected token.
C2_OutsideAllowListUnsafe ==
    (val.checked /\ FirstToken(val.command) \notin AllowList)
        => /\ ~val.result.safe
           /\ Contains(val.result.reason, FirstToken(val.command))

\* C17: the validator reports the first failing rule in the order empty, maximum
\* length, deny-list: a command that is longer than the maximum and contains a
\* deny-listed fragment is found unsafe with the length reason, not the fragment one.
C17_LengthBeforeDenyList ==
    (val.checked /\ Len(val.command) > MaxCommandLength /\ DangerousHits(val.command) # {})
        => /\ ~val.result.safe
           /\ val.result.reason = "Command too long"

(***************************************************************************)
(* SpecExec: one call of execute_system_command, step by step.  The child  *)
(* is the process subprocess.run starts; elapsed counts the seconds it has *)
(* been waited for.  The markers are modelled without their emoji.         *)
(***************************************************************************)

\* the commands handed to the executor
ExecCommands == {"ls -la", "rm \"everything\"", "cat 'a b.txt", "foo --all", "dir /a"}

\* how a child can end: (returncode, stdout, stderr)
ExitRuns == {
    [kind |-> "exit", returncode |-> 0, stdout |-> "a.txt\nb.py\n", stderr |-> ""],
    [kind |-> "exit", returncode |-> 0, stdout |-> "", stderr |-> ""],
    [kind |-> "exit", returncode |-> 0, stdout |-> "\n", stderr |-> "warning\n"],
    [kind |-> "exit", returncode |-> 1, stdout |-> "",
     stderr |-> "No such file or directory\n"],
    [kind |-> "exit", returncode |-> 2, stdout |-> "partial", stderr |-> ""] }

\* how starting the child can end: started, or the fault Popen raises; on Windows a
\* FileNotFoundError of CreateProcess carries no filename
SpawnAnswers(argv, is_windows) == {
    [kind |-> "ok"],
    [kind |-> "FileNotFoundError",
     filename |-> IF is_windows \/ argv = <<>> THEN "None" ELSE argv[1]],
    [kind |-> "error", msg |-> "[Errno 13] Permission denied"] }

\* where the host finds the executable: cmd.exe resolves it or not on Windows
FoundAnswers(is_windows) == IF is_windows THEN {"which", "none"} ELSE FoundIn

\* a timeout that leaves the child running (Popen.communicate(timeout) alone)
subprocess_run_no_kill(child) == child

\* subprocess.run(..., timeout=30) when the timeout expires: the child is killed and
\* waited for before TimeoutExpired is raised
subprocess_run_timeout(child) == "killed"

InitExec ==
    /\ match_cache = EmptyMap
    /\ AI_ENABLED = TRUE
    /\ IS_WINDOWS \in BOOLEAN
    /\ session_contexts = EmptyMap
    /\ clock = 0
    /\ log = EmptyMap
    /\ last = NoLast
    /\ val = NoVal /\ proc = NoProc /\ race = NoRace /\ direct = <<>>
    /\ mode = "exec"

\* entry: tokenize and resolve (posix), up to the call of subprocess.run
ExecCall(command, found) ==
    /\ mode = "exec"
    /\ proc.pc = "idle"
    /\ LET p == PrepareRun(command, IS_WINDOWS, found) IN
        proc' = IF p.spawn
                THEN [proc EXCEPT !.pc = "spawning", !.command = command,
                                  !.argv = p.argv, !.found = found]
                ELSE [proc EXCEPT !.pc = "returned", !.command = command,
                                  !.argv = p.argv, !.found = found,
                                  !.out = [kind |-> IF shlex_split(command).ok
                                                    THEN "unresolved" ELSE "error"],
                                  !.result = p.result]
    /\ UNCHANGED <<configVars, requestVars, val, race, direct, mode>>

\* subprocess.run starts the child, or Popen raises and the fault is caught
ExecSpawn(answer) ==
    /\ mode = "exec"
    /\ proc.pc = "spawning"
    /\ LET fault == IF ~IS_WINDOWS /\ proc.argv = <<>>
                    THEN [kind |-> "error", msg |-> "list index out of range"]
                    ELSE answer
       IN proc' = IF fault.kind = "ok"
                  THEN [proc EXCEPT !.pc = "waiting", !.child = "running"]
                  ELSE [proc EXCEPT !.pc = "returned", !.out = fault,
                                    !.result = ResultOfRun(fault)]
    /\ UNCHANGED <<configVars, requestVars, val, race, direct, mode>>

\* a second passes while the child runs (a shell that cannot resolve the program
\* answers at once)
ExecTick ==
    /\ mode = "exec"
    /\ proc.pc = "waiting" /\ proc.child = "running"
    /\ proc.elapsed < ExecTimeout
    /\ ~(IS_WINDOWS /\ proc.found = "none")
    /\ proc' = [proc EXCEPT !.elapsed = @ + 1]
    /\ UNCHANGED <<configVars, requestVars, val, race, direct, mode>>

\* the child ends by itself
ChildExit(run) ==
    /\ mode = "exec"
    /\ proc.pc = "waiting" /\ proc.child = "running"
    /\ proc' = [proc EXCEPT !.child = "exited",
                            !.out = RunOutcome(proc.command, proc.argv, IS_WINDOWS,
                                               proc.found, run)]
    /\ UNCHANGED <<configVars, requestVars, val, race, direct, mode>>

\* subprocess.run returns the captured text (posix decodes it strictly, Windows with
\* errors='replace') and the result is built from it
ExecCollect(decodable) ==
    /\ mode = "exec"
    /\ proc.pc = "waiting" /\ proc.child = "exited"
    /\ LET out == IF decodable THEN proc.out
                  ELSE [kind |-> "error",
                        msg |-> "'utf-8' codec can't decode byte 0xff"]
       IN proc' = [proc EXCEPT !.pc = "returned", !.out = out, !.result = ResultOfRun(out)]
    /\ UNCHANGED <<configVars, requestVars, val, race, direct, mode>>

\* the timeout expires with the child still running
ExecExpire ==
    /\ mode = "exec"
    /\ proc.pc = "waiting" /\ proc.child = "running"
    /\ proc.elapsed = ExecTimeout
    /\ proc' = [proc EXCEPT !.pc = "returned",
                            !.child = subprocess_run_timeout(@),
                            !.out = [kind |-> "timeout"],
                            !.result = ResultOfRun([kind |-> "timeout"])]
    /\ UNCHANGED <<configVars, requestVars, val, race, direct, mode>>

NextExec ==
    \/ \E command \in ExecCommands, found \in FoundAnswers(IS_WINDOWS) :
           ExecCall(command, found)
    \/ \E answer \in SpawnAnswers(proc.argv, IS_WINDOWS) : ExecSpawn(answer)
    \/ ExecTick
    \/ \E run \in ExitRuns : ChildExit(run)
    \/ \E decodable \in (IF IS_WINDOWS THEN {TRUE} ELSE BOOLEAN) : ExecCollect(decodable)
    \/ ExecExpire

SpecExec == InitExec /\ [][NextExec]_vars

\* the platform cannot resolve the executable of the call
Unresolved == proc.found = "none" /\ proc.out.kind \in {"unresolved", "exit"}

\* the executable the call names
Executable == IF IS_WINDOWS THEN FirstToken(proc.command) ELSE proc.argv[1]

\* C7 (as claimed): execute returns a text and never raises; exit status zero gives the
\* captured standard output, or the success marker when it is empty; another exit status
\* gives the captured standard error, or the failure marker naming the status; a timeout
\* gives the timeout marker; an unresolvable executable gives the not-found marker
\* naming it; any other fault gives an error marker.
C7_ResultAsClaimed ==
    proc.pc = "returned" =>
        /\ proc.result # None
        /\ IF Unresolved \/ proc.out.kind = "FileNotFoundError"
           THEN proc.result = NotFoundMarker(Executable)
           ELSE IF proc.out.kind = "exit"
           THEN proc.result =
                    (IF proc.out.returncode = 0
                     THEN (IF proc.out.stdout # "" THEN proc.out.stdout ELSE SuccessMarker)
                     ELSE (IF proc.out.stderr # "" THEN proc.out.stderr
                           ELSE FailureMarker(proc.out.returncode)))
           ELSE IF proc.out.kind = "timeout"
           THEN proc.result = TimeoutMarker
           ELSE StartsWith(proc.result, "Error executing command: ")

\* C7 (amended): execute returns a text and never raises; exit status zero gives the
\* captured standard output with the white space at both ends removed, or the success
\* marker when nothing was captured; another exit status gives the captured standard
\* error so trimmed, or the failure marker naming the status; a timeout gives the
\* timeout marker; on posix an executable found neither on the search path nor in the
\* three standard directories gives the not-found marker naming it, and so does a
\* FileNotFoundError of the launch, naming the file the error carries; on Windows the
\* shell's own exit status and error text are returned for a program it cannot resolve;
\* any other fault gives an error marker.
C7_ResultTrimmed ==
    proc.pc = "returned" =>
        /\ proc.result # None
        /\ IF proc.out.kind = "unresolved"
           THEN ~IS_WINDOWS /\ proc.result = NotFoundMarker(proc.argv[1])
           ELSE IF proc.out.kind = "FileNotFoundError"
           THEN proc.result = NotFoundMarker(proc.out.filename)
           ELSE IF proc.out.kind = "exit"
           THEN proc.result =
                    Strip(IF proc.out.returncode = 0
                          THEN (IF proc.out.stdout # "" THEN proc.out.stdout
                                ELSE SuccessMarker)
                          ELSE (IF proc.out.stderr # "" THEN proc.out.stderr
                                ELSE FailureMarker(proc.out.returncode)))
           ELSE IF proc.out.kind = "timeout"
           THEN proc.result = TimeoutMarker
           ELSE StartsWith(proc.result, "Error executing command: ")

\* a call that returned captured output whose ends were trimmed
C7_Witness ==
    /\ proc.pc = "returned"
    /\ proc.out.kind = "exit" /\ proc.out.returncode = 0
    /\ proc.out.stdout # ""
    /\ proc.result # proc.out.stdout

\* C8: whenever execute has returned, also with the timeout marker after the timeout
\* expired, the child it started has terminated: no child of a call is still running
\* once the call is over.
C8_NoChildOutlivesCall ==
    proc.pc = "returned" => proc.child \in {"none", "exited", "killed"}

\* a call that returned the timeout marker, its child killed
C8_Witness ==
    /\ proc.pc = "returned"
    /\ proc.result = TimeoutMarker
    /\ proc.elapsed = ExecTimeout
    /\ proc.child = "killed"

(***************************************************************************)
(* SpecRace: two calls of update_session_context for one session id, run   *)
(* by two request threads and interleaved statement by statement.  The     *)
(* session map holds references: a context is an object, and so is each of *)
(* its two history lists (append changes a list in place, the trim binds a *)
(* new list).                                                              *)
(***************************************************************************)

RaceSession == "default"
RaceThreads == {1, 2}

\* the call each thread makes: (command, output, operation_type)
RaceCalls == <<
    [command |-> "ls", output |-> "a.txt\nb.py", operation_type |-> "list_files"],
    [command |-> "pwd", output |-> "/home/u", operation_type |-> "show_path"] >>

\* the session before the race: absent ("absent"), or present after so many updates
PriorUpdates == {0, 9, 10}
RaceStarts == {"absent"} \cup {ToString(k) : k \in PriorUpdates}

\* the session map after k updates made one at a time
RECURSIVE Prior(_)
Prior(k) ==
    IF k = 0 THEN get_session_context(EmptyMap, RaceSession)
    ELSE update_session_context(Prior(k - 1), RaceSession, "echo " \o ToString(k),
                                ToString(k), "unknown", k)

\* the session map a start stands for
StartMap(start) ==
    IF start = "absent" THEN EmptyMap
    ELSE Prior(CHOOSE k \in PriorUpdates : ToString(k) = start)

\* the heap a start stands for: context 1 with lists 1 (commands) and 2 (outputs)
StartRace(start) ==
    LET m == StartMap(start)
        fresh == [pc |-> "check", context |-> 0, list |-> 0, slice |-> <<>>]
    IN IF start = "absent"
       THEN [start |-> start, map |-> 0, ctxs |-> <<>>, lists |-> <<>>, now |-> 0,
             threads |-> [t \in RaceThreads |-> fresh]]
       ELSE [start |-> start, map |-> 1,
             ctxs |-> <<[m[RaceSession] EXCEPT !.command_history = 1,
                                               !.output_history = 2]>>,
             lists |-> <<m[RaceSession].command_history, m[RaceSession].output_history>>,
             now |-> Len(m[RaceSession].command_history),
             threads |-> [t \in RaceThreads |-> fresh]]

InitRace ==
    /\ match_cache = EmptyMap
    /\ AI_ENABLED = TRUE
    /\ IS_WINDOWS = FALSE
    /\ session_contexts = EmptyMap
    /\ clock = 0
    /\ log = EmptyMap
    /\ last = NoLast
    /\ val = NoVal /\ proc = NoProc /\ direct = <<>>
    /\ race \in {StartRace(start) : start \in RaceStarts}
    /\ mode = "race"

\* thread t is at the statement pc
At(t, pc) == mode = "race" /\ race.threads[t].pc = pc

\* the context thread t holds
Held(t) == race.ctxs[race.threads[t].context]

RaceFrame == UNCHANGED <<configVars, requestVars, val, proc, direct, mode>>

\* line 222: if session_id not in session_contexts
RaceCheck(t) ==
    /\ At(t, "check")
    /\ race' = [race EXCEPT !.threads[t].pc = IF race.map = 0 THEN "create" ELSE "lookup"]
    /\ RaceFrame

\* lines 223-229: session_contexts[session_id] = {...}
RaceCreate(t) ==
    /\ At(t, "create")
    /\ race' = [race EXCEPT
                  !.lists = @ \o <<<<>>, <<>>>>,
                  !.ctxs = Append(@, [NewContext EXCEPT
                                         !.command_history = Len(race.lists) + 1,
                                         !.output_history = Len(race.lists) + 2]),
                  !.map = Len(race.ctxs) + 1,
                  !.threads[t].pc = "lookup"]
    /\ RaceFrame

\* lines 230, 234: context = session_contexts[session_id]
RaceLookup(t) ==
    /\ At(t, "lookup")
    /\ race' = [race EXCEPT !.threads[t].context = race.map,
                            !.threads[t].pc = "load_commands"]
    /\ RaceFrame

\* line 236: context['command_history'] is read, before the entry is built
RaceLoadCommands(t) ==
    /\ At(t, "load_commands")
    /\ race' = [race EXCEPT !.threads[t].list = Held(t).command_history,
                            !.threads[t].pc = "append_command"]
    /\ RaceFrame

\* lines 236-240: the entry is built (datetime.now()) and appended to the list read
RaceAppendCommand(t) ==
    /\ At(t, "append_command")
    /\ race' = [race EXCEPT
                  !.lists[race.threads[t].list] =
                      Append(@, [command |-> RaceCalls[t].command,
                                 timestamp |-> race.now + 1,
                                 operation_type |-> RaceCalls[t].operation_type]),
                  !.now = @ + 1,
                  !.threads[t].pc = "append_output"]
    /\ RaceFrame

\* line 241: context['output_history'].append(output)
RaceAppendOutput(t) ==
    /\ At(t, "append_output")
    /\ race' = [race EXCEPT !.lists[Held(t).output_history] =
                                Append(@, RaceCalls[t].output),
                            !.threads[t].pc = "set_operation"]
    /\ RaceFrame

\* line 242: context['last_operation'] = operation_type
RaceSetOperation(t) ==
    /\ At(t, "set_operation")
    /\ race' = [race EXCEPT
                  !.ctxs[race.threads[t].context].last_operation =
                      RaceCalls[t].operation_type,
                  !.threads[t].pc = "files"]
    /\ RaceFrame

\* lines 245-261: the file list of a listing
RaceFiles(t) ==
    /\ At(t, "files")
    /\ race' = [race EXCEPT
                  !.ctxs[race.threads[t].context] =
                      UpdateFiles(@, RaceCalls[t].output, RaceCalls[t].operation_type),
                  !.threads[t].pc = "trim_check"]
    /\ RaceFrame

\* line 264: if len(context['command_history']) > context['max_history']
RaceTrimCheck(t) ==
    /\ At(t, "trim_check")
    /\ race' = [race EXCEPT !.threads[t].pc =
                    IF Len(race.lists[Held(t).command_history]) > Held(t).max_history
                    THEN "trim_commands_read" ELSE "done"]
    /\ RaceFrame

\* line 265, right-hand side: context['command_history'][-max_history:]
RaceTrimCommandsRead(t) ==
    /\ At(t, "trim_commands_read")
    /\ race' = [race EXCEPT
                  !.threads[t].slice =
                      LastN(race.lists[Held(t).command_history], Held(t).max_history),
                  !.threads[t].pc = "trim_commands_store"]
    /\ RaceFrame

\* line 265, the assignment: context['command_history'] = the new list
RaceTrimCommandsStore(t) ==
    /\ At(t, "trim_commands_store")
    /\ race' = [race EXCEPT
                  !.lists = Append(@, race.threads[t].slice),
                  !.ctxs[race.threads[t].context].command_history = Len(race.lists) + 1,
                  !.threads[t].slice = <<>>,
                  !.threads[t].pc = "trim_outputs_read"]
    /\ RaceFrame

\* line 266, right-hand side: context['output_history'][-max_history:]
RaceTrimOutputsRead(t) ==
    /\ At(t, "trim_outputs_read")
    /\ race' = [race EXCEPT
                  !.threads[t].slice =
                      LastN(race.lists[Held(t).output_history], Held(t).max_history),
                  !.threads[t].pc = "trim_outputs_store"]
    /\ RaceFrame

\* line 266, the assignment: context['output_history'] = the new list
RaceTrimOutputsStore(t) ==
    /\ At(t, "trim_outputs_store")
    /\ race' = [race EXCEPT
                  !.lists = Append(@, race.threads[t].slice),
                  !.ctxs[race.threads[t].context].output_history = Len(race.lists) + 1,
                  !.threads[t].slice = <<>>,
                  !.threads[t].pc = "done"]
    /\ RaceFrame

NextRace ==
    \E t \in RaceThreads :
        \/ RaceCheck(t)
        \/ RaceCreate(t)
        \/ RaceLookup(t)
        \/ RaceLoadCommands(t)
        \/ RaceAppendCommand(t)
        \/ RaceAppendOutput(t)
        \/ RaceSetOperation(t)
        \/ RaceFiles(t)
        \/ RaceTrimCheck(t)
        \/ RaceTrimCommandsRead(t)
        \/ RaceTrimCommandsStore(t)
        \/ RaceTrimOutputsRead(t)
        \/ RaceTrimOutputsStore(t)

SpecRace == InitRace /\ [][NextRace]_vars

\* both calls have returned
RaceDone == mode = "race" /\ \A t \in RaceThreads : race.threads[t].pc = "done"

\* the session as the map holds it, its lists by value
RaceSessionValue ==
    LET c == race.ctxs[race.map] IN
    [c EXCEPT !.command_history = race.lists[c.command_history],
              !.output_history = race.lists[c.output_history]]

\* a context without its timestamps
Essence(c) ==
    [commands |-> [i \in 1..Len(c.command_history) |->
                      <<c.command_history[i].command, c.command_history[i].operation_type>>],
     outputs |-> c.output_history,
     current_files |-> c.current_files,
     last_operation |-> c.last_operation]

\* the session after the two calls run one after the other, thread a first
Serial(a, b) ==
    LET m0 == StartMap(race.start)
        m1 == update_session_context(m0, RaceSession, RaceCalls[a].command,
                                     RaceCalls[a].output, RaceCalls[a].operation_type, 0)
        m2 == update_session_context(m1, RaceSession, RaceCalls[b].command,
                                     RaceCalls[b].output, RaceCalls[b].operation_type, 0)
    IN m2[RaceSession]

\* the output that was passed with a command
OutputPassedWith(command) ==
    IF \E t \in RaceThreads : RaceCalls[t].command = command
    THEN RaceCalls[CHOOSE t \in RaceThreads : RaceCalls[t].command = command].output
    ELSE Slice(command, 6, Len(command))

\* C6: when two updates of one session run concurrently, the session ends as if the two
\* had run in some serial order: no appended entry is lost, command_history[i] and
\* output_history[i] come from the same update, and the two histories are equally long.
C6_RaceIsSerial ==
    RaceDone =>
        LET c == RaceSessionValue IN
        /\ Essence(c) \in {Essence(Serial(1, 2)), Essence(Serial(2, 1))}
        /\ Len(c.command_history) = Len(c.output_history)
        /\ \A i \in 1..Len(c.command_history) :
               c.output_history[i] = OutputPassedWith(c.command_history[i].command)

(***************************************************************************)
(* The request pipeline: get_ai_command and handle_command                 *)
(***************************************************************************)

\* the request size limit of handle_command
MaxRequestLength == 1000

\* number of requests handled in a run
MaxRequests == 2

\* a value Python treats as true (a non-empty string)
Truthy(v) == v # "" /\ v # None

EndsWith(t, suffix) ==
    Len(suffix) <= Len(t) /\ SubSeq(t, Len(t) - Len(suffix) + 1, Len(t)) = suffix

\* what the oracle answers: a text, or a fault (generate_content raises)
OracleAnswers == {
    [kind |-> "text", text |-> "^^^bash\nls -la\n^^^"],
    [kind |-> "text", text |-> "shutdown now"],
    [kind |-> "text", text |-> "Error: Ambiguous or destructive request"],
    [kind |-> "fault", text |-> "503 Service Unavailable"] }

\* how the host answers a run, in the pipeline
HostAnswers == {
    [found |-> "which",
     run |-> [kind |-> "exit", returncode |-> 0, stdout |-> "a.txt\nb.py\n", stderr |-> ""]],
    [found |-> "which",
     run |-> [kind |-> "exit", returncode |-> 1, stdout |-> "",
              stderr |-> "No such file or directory\n"]],
    [found |-> "none", run |-> [kind |-> "timeout"]] }

NoTrace ==
    [matcher_calls |-> 0, builder_calls |-> 0, oracle_called |-> FALSE,
     validated |-> <<>>, executed |-> <<>>, spawned |-> FALSE]

\* get_contextual_suggestions(query, session_context)
get_contextual_suggestions(query, c) ==
    IF c.last_operation = "list_files"
    THEN IF Contains(ToLower(query), "count")
         THEN <<"Count the files that were just listed">>
         ELSE IF Contains(ToLower(query), "python") /\ c.current_files # <<>>
         THEN LET n == Cardinality({k \in 1..Len(c.current_files) :
                                      EndsWith(c.current_files[k], ".py")})
              IN IF n > 0 THEN <<"Found " \o ToString(n) \o " Python files">> ELSE <<>>
         ELSE <<>>
    ELSE <<>>

\* build_enhanced_prompt(query, session_id), c being the session's context: what the
\* prompt embeds (the instructions around it are fixed text), and the feedback
build_enhanced_prompt(query, c, m) ==
    IF m.cmd_type # None
    THEN [prompt |-> [kind |-> "command",
                      query |-> build_smart_command(m.cmd_type, m.params,
                                                    COMMAND_PATTERNS[m.idx], IS_WINDOWS),
                      recent |-> <<>>, files |-> <<>>, more |-> 0, suggestions |-> <<>>,
                      platform |-> IF IS_WINDOWS THEN "Windows" ELSE "Unix/Linux"],
          feedback |-> "Pattern matched: " \o COMMAND_PATTERNS[m.idx].description]
    ELSE [prompt |-> [kind |-> "enhanced",
                      query |-> query,
                      recent |-> LastN(c.command_history, 3),
                      files |-> FirstN(c.current_files, 5),
                      more |-> IF Len(c.current_files) > 5 THEN Len(c.current_files) - 5 ELSE 0,
                      suggestions |-> get_contextual_suggestions(query, c),
                      platform |-> IF IS_WINDOWS THEN "Windows" ELSE "Unix/Linux"],
          feedback |-> "AI processing with enhanced context"]

\* the prompt of the branch without a session id
PlainPrompt(query) ==
    [kind |-> "plain", query |-> query, recent |-> <<>>, files |-> <<>>, more |-> 0,
     suggestions |-> <<>>, platform |-> IF IS_WINDOWS THEN "Windows" ELSE "Unix/Linux"]

NoPrompt ==
    [kind |-> "none", query |-> "", recent |-> <<>>, files |-> <<>>, more |-> 0,
     suggestions |-> <<>>, platform |-> ""]

\* a request longer than the limit
LongRequest == Repeat("a", MaxRequestLength + 1)

\* the command texts of the requests explored
PipeCommands == {
    "show all files", "delete everything", "delete shutdown",
    "go to docs", "go to attic", "what time is it", "create file test.py",
    "ls", "ls docs", "cd docs", "cd attic", "pwd", "help", "clear", "dir", "", LongRequest }

\* match_command_pattern on the queries explored: the value match_cache starts with
MatchTable ==
    [q \in {c \in PipeCommands \cup {"cd .."} : Len(c) <= MaxRequestLength} |->
        match_command_pattern(q)]

\* match_command_pattern(query), as match_cache holds it for the queries explored
Matched(query) == match_cache[query]

\* a variant of the tail without the test for the refusal sentinel
OracleTailNoSentinel(prompt, feedback, ctxs, calls, builds, oracle) ==
    LET command == CleanResponse(oracle.text)
        v == validate_command_security(command)
        base == [command |-> None, feedback |-> "", ctxs |-> ctxs, prompt |-> prompt,
                 trace |-> [NoTrace EXCEPT !.matcher_calls = calls, !.builder_calls = builds,
                                           !.oracle_called = TRUE]]
    IN IF oracle.kind = "fault"
       THEN [base EXCEPT !.feedback = "Error processing request: " \o oracle.text]
       ELSE IF ~v.safe
       THEN [base EXCEPT !.feedback = "Security validation failed: " \o v.reason,
                         !.trace.validated = <<command>>]
       ELSE [base EXCEPT !.command = command, !.feedback = feedback,
                         !.trace.validated = <<command>>]

\* the tail of get_ai_command: the oracle is called, its answer cleaned and validated
OracleTail(prompt, feedback, ctxs, calls, builds, oracle) ==
    LET command == CleanResponse(oracle.text)
        v == validate_command_security(command)
        base == [command |-> None, feedback |-> "", ctxs |-> ctxs, prompt |-> prompt,
                 trace |-> [NoTrace EXCEPT !.matcher_calls = calls, !.builder_calls = builds,
                                           !.oracle_called = TRUE]]
    IN IF oracle.kind = "fault"
       THEN [base EXCEPT !.feedback = "Error processing request: " \o oracle.text]
       ELSE IF StartsWith(command, "Error:")
       THEN [base EXCEPT !.feedback = command]
       ELSE IF ~v.safe
       THEN [base EXCEPT !.feedback = "Security validation failed: " \o v.reason,
                         !.trace.validated = <<command>>]
       ELSE [base EXCEPT !.command = command, !.feedback = feedback,
                         !.trace.validated = <<command>>]

\* get_ai_command(natural_language_query, session_id) on the session map ctxs, the
\* oracle answering `oracle` if it is asked: (command, feedback), the session map
\* afterwards, and what was called on the way
get_ai_command(query, session_id, ctxs, oracle) ==
    IF ~AI_ENABLED
    THEN [command |-> None,
          feedback |-> "AI features are not configured. Please set the GOOGLE_API_KEY.",
          ctxs |-> ctxs, prompt |-> NoPrompt, trace |-> NoTrace]
    ELSE IF Truthy(session_id)
    THEN LET cs == get_session_context(ctxs, session_id)
             m == Matched(query)
             smart == build_smart_command(m.cmd_type, m.params,
                                          COMMAND_PATTERNS[m.idx], IS_WINDOWS)
             e == build_enhanced_prompt(query, cs[session_id], m)
         IN IF m.cmd_type # None /\ COMMAND_PATTERNS[m.idx].builtin_override
            THEN [command |-> "BUILTIN_OVERRIDE",
                  feedback |-> "Built-in handler: " \o COMMAND_PATTERNS[m.idx].description,
                  ctxs |-> cs, prompt |-> NoPrompt,
                  trace |-> [NoTrace EXCEPT !.matcher_calls = 1]]
            ELSE IF m.cmd_type # None /\ Truthy(smart)
            THEN [command |-> smart,
                  feedback |-> "Smart match: " \o COMMAND_PATTERNS[m.idx].description,
                  ctxs |-> cs, prompt |-> NoPrompt,
                  trace |-> [NoTrace EXCEPT !.matcher_calls = 1, !.builder_calls = 1]]
            ELSE OracleTail(e.prompt, e.feedback, cs, 2,
                            IF m.cmd_type # None THEN 2 ELSE 0, oracle)
    ELSE OracleTail(PlainPrompt(query), "AI processing", ctxs, 0, 0, oracle)

\* jsonify({'output': text, 'new_path': new_path})
Output(text, new_path) ==
    [status |-> 200, kind |-> "output", text |-> text, new_path |-> new_path]

\* jsonify({'error': text, 'new_path': new_path})
Error(text, new_path) ==
    [status |-> 200, kind |-> "error", text |-> text, new_path |-> new_path]

\* jsonify({'error': text}), 400
BadRequest(text) ==
    [status |-> 400, kind |-> "error", text |-> text, new_path |-> None]

\* the text the help builtin returns (its wording is not modelled)
HelpText == "PyTerminal - Enhanced AI Terminal (help text)"

\* current_path as handle_command resolves it
ResolvePath(path) == IF path = "~" \/ ~IsDir(path) THEN HomeDir ELSE path

\* parts[k] in parts
InParts(parts, flags) == \E k \in 1..Len(parts) : parts[k] \in flags

\* the lines of the ls builtin
RECURSIVE LsLines(_, _, _)
LsLines(entries, long, k) ==
    IF k > Len(entries) THEN <<>>
    ELSE << IF long
            THEN (IF entries[k].is_dir THEN "drwxr-xr-x" ELSE "-rw-r--r--") \o " "
                 \o PadLeft(ToString(entries[k].size), 8) \o " " \o entries[k].name
            ELSE entries[k].name >>
         \o LsLines(entries, long, k + 1)

\* the lines of the dir builtin
RECURSIVE DirLines(_, _)
DirLines(entries, k) ==
    IF k > Len(entries) THEN <<>>
    ELSE << (IF entries[k].is_dir THEN "<DIR>" ELSE PadLeft(ToString(entries[k].size), 10))
            \o " " \o entries[k].name >>
         \o DirLines(entries, k + 1)

\* the result of a branch: the response, the session map afterwards, what was called
Handled(response, ctxs, trace, prompt) ==
    [response |-> response, ctxs |-> ctxs, trace |-> trace, prompt |-> prompt]

\* the 'ls' branch
HandleLs(command_full, parts, session_id, current_path, ctxs, now) ==
    LET path_arg == IF Len(parts) > 1 THEN parts[2] ELSE "."
        target_path == PathJoin(current_path, path_arg)
        show_hidden == InParts(parts, {"-a", "-la", "-al"})
        show_long == InParts(parts, {"-l", "-la", "-al"})
        all == DirEntries(AbsPath(target_path))
        files == IF show_hidden THEN all ELSE Visible(all, 1)
        output == JoinWith(LsLines(files, show_long, 1), "\n", 1)
    IN IF ~IsDir(target_path)
       THEN Handled(Error("ls: [Errno 2] No such file or directory: '"
                          \o target_path \o "'", current_path),
                    ctxs, NoTrace, NoPrompt)
       ELSE Handled(Output(output, current_path),
                    update_session_context(ctxs, session_id, command_full, output,
                                           "list_files", now),
                    NoTrace, NoPrompt)

\* the 'dir' branch (Windows only)
HandleDir(command_full, parts, session_id, current_path, ctxs, now) ==
    LET path_arg == IF Len(parts) > 1 /\ ~StartsWith(parts[2], "/") THEN parts[2] ELSE "."
        target_path == PathJoin(current_path, path_arg)
        show_hidden == InParts(parts, {"/a", "/A"})
        all == DirEntries(AbsPath(target_path))
        files == IF show_hidden THEN all ELSE Visible(all, 1)
        output == JoinWith(DirLines(files, 1), "\n", 1)
    IN IF ~IsDir(target_path)
       THEN Handled(Error("dir: [Errno 2] No such file or directory: '"
                          \o target_path \o "'", current_path),
                    ctxs, NoTrace, NoPrompt)
       ELSE Handled(Output(output, current_path),
                    update_session_context(ctxs, session_id, command_full, output,
                                           "list_files", now),
                    NoTrace, NoPrompt)

\* a variant of the 'cd' branch whose error carries the path that was asked for
HandleCdErrorMoves(parts, current_path, ctxs) ==
    IF Len(parts) < 2
    THEN Handled(Output("Changed directory to " \o HomeDir, HomeDir), ctxs, NoTrace, NoPrompt)
    ELSE LET potential_path == PathJoin(current_path, parts[2]) IN
         IF IsDir(potential_path)
         THEN Handled(Output("Changed directory to " \o AbsPath(potential_path),
                             AbsPath(potential_path)),
                      ctxs, NoTrace, NoPrompt)
         ELSE Handled(Error("cd: no such file or directory: " \o parts[2],
                            AbsPath(potential_path)),
                      ctxs, NoTrace, NoPrompt)

\* the 'cd' branch
HandleCd(parts, current_path, ctxs) ==
    IF Len(parts) < 2
    THEN Handled(Output("Changed directory to " \o HomeDir, HomeDir), ctxs, NoTrace, NoPrompt)
    ELSE LET potential_path == PathJoin(current_path, parts[2]) IN
         IF IsDir(potential_path)
         THEN Handled(Output("Changed directory to " \o AbsPath(potential_path),
                             AbsPath(potential_path)),
                      ctxs, NoTrace, NoPrompt)
         ELSE Handled(Error("cd: no such file or directory: " \o parts[2], current_path),
                      ctxs, NoTrace, NoPrompt)

\* the BUILTIN_OVERRIDE branch of the natural-language path
HandleOverride(command_full, session_id, current_path, g, now) ==
    LET m == Matched(command_full)
        trace == [g.trace EXCEPT !.matcher_calls = @ + 1]
        path_arg == m.params[1]
        potential_path == PathJoin(current_path, path_arg)
        new_path == AbsPath(potential_path)
    IN IF m.cmd_type = "change_directory" /\ m.params # <<>>
       THEN IF IsDir(potential_path)
            THEN Handled(Output(g.feedback \o "\nChanged directory to " \o new_path, new_path),
                         update_session_context(g.ctxs, session_id,
                                                "cd \"" \o path_arg \o "\"",
                                                "Changed to " \o new_path,
                                                "change_directory", now),
                         trace, g.prompt)
            ELSE Handled(Error(g.feedback \o "\nDirectory not found: " \o path_arg,
                               current_path),
                         g.ctxs, trace, g.prompt)
       ELSE Handled(Error("Built-in command not implemented", current_path),
                    g.ctxs, trace, g.prompt)

\* a variant of the natural-language branch that records a refused request in the
\* session
HandleNaturalLogsRefusal(command_full, session_id, current_path, g, now, host) ==
    LET m == Matched(command_full)
        operation_type == IF m.cmd_type # None THEN m.cmd_type ELSE "unknown"
        output == execute_system_command(g.command, IS_WINDOWS, host.found, host.run)
    IN IF ~Truthy(g.command)
       THEN Handled(Error(IF Truthy(g.feedback) THEN g.feedback
                          ELSE "Could not process command", current_path),
                    update_session_context(g.ctxs, session_id, command_full, g.feedback,
                                           operation_type, now),
                    g.trace, g.prompt)
       ELSE IF g.command = "BUILTIN_OVERRIDE"
       THEN HandleOverride(command_full, session_id, current_path, g, now)
       ELSE Handled(Output(g.feedback \o "\n" \o output, current_path),
                    update_session_context(g.ctxs, session_id, g.command, output,
                                           operation_type, now),
                    [g.trace EXCEPT !.matcher_calls = @ + 1,
                                    !.executed = <<g.command>>,
                                    !.spawned = Spawns(g.command, IS_WINDOWS,
                                                       host.found, host.run)],
                    g.prompt)

\* the natural-language branch ("Enhanced AI processing for natural language")
\* g being what get_ai_command(command, session_id) returned
HandleNatural(command_full, session_id, current_path, g, now, host) ==
    LET m == Matched(command_full)
        operation_type == IF m.cmd_type # None THEN m.cmd_type ELSE "unknown"
        output == execute_system_command(g.command, IS_WINDOWS, host.found, host.run)
    IN IF ~Truthy(g.command)
       THEN Handled(Error(IF Truthy(g.feedback) THEN g.feedback
                          ELSE "Could not process command", current_path),
                    g.ctxs, g.trace, g.prompt)
       ELSE IF g.command = "BUILTIN_OVERRIDE"
       THEN HandleOverride(command_full, session_id, current_path, g, now)
       ELSE Handled(Output(g.feedback \o "\n" \o output, current_path),
                    update_session_context(g.ctxs, session_id, g.command, output,
                                           operation_type, now),
                    [g.trace EXCEPT !.matcher_calls = @ + 1,
                                    !.executed = <<g.command>>,
                                    !.spawned = Spawns(g.command, IS_WINDOWS,
                                                       host.found, host.run)],
                    g.prompt)

\* handle_command for the request req = [json, command, sessionId, path] at time now,
\* the oracle answering `oracle` and the host `host` where they are asked
handle_command(req, ctxs, now, oracle, host) ==
    LET command_full == Strip(req.command)
        session_id == req.sessionId
        current_path == ResolvePath(req.path)
        parts == Split(command_full)
        command_key == IF parts # <<>> THEN parts[1] ELSE ""
    IN IF ~req.json
       THEN Handled(BadRequest("No JSON data provided"), ctxs, NoTrace, NoPrompt)
       ELSE IF Len(command_full) > MaxRequestLength
       THEN Handled(BadRequest("Command too long (max 1000 characters)"),
                    ctxs, NoTrace, NoPrompt)
       ELSE IF command_key = "ls"
       THEN HandleLs(command_full, parts, session_id, current_path, ctxs, now)
       ELSE IF command_key = "dir" /\ IS_WINDOWS
       THEN HandleDir(command_full, parts, session_id, current_path, ctxs, now)
       ELSE IF command_key = "cd"
       THEN HandleCd(parts, current_path, ctxs)
       ELSE IF command_key = "pwd"
       THEN Handled(Output(current_path, current_path),
                    update_session_context(ctxs, session_id, command_full, current_path,
                                           "show_path", now),
                    NoTrace, NoPrompt)
       ELSE IF command_key = "help"
       THEN Handled(Output(HelpText, current_path),
                    update_session_context(ctxs, session_id, command_full, HelpText,
                                           "help", now),
                    NoTrace, NoPrompt)
       ELSE IF command_key = "clear"
       THEN Handled(Output("", current_path), ctxs, NoTrace, NoPrompt)
       ELSE HandleNatural(command_full, session_id, current_path,
                          get_ai_command(command_full, session_id, ctxs, oracle), now, host)

\* the requests explored: an absent sessionId is 'default', an absent path is '~'
PipeRequests ==
    {[json |-> TRUE, command |-> c, sessionId |-> "default", path |-> "~"] :
        c \in PipeCommands}
    \cup {[json |-> TRUE, command |-> c, sessionId |-> "", path |-> "~"] :
        c \in {"show all files", "what time is it", "go to docs"}}
    \cup {[json |-> TRUE, command |-> "pwd", sessionId |-> "default", path |-> "/home/u/docs"],
          [json |-> TRUE, command |-> "cd ..", sessionId |-> "default", path |-> "/home/u/docs"],
          [json |-> TRUE, command |-> "pwd", sessionId |-> "default", path |-> "/gone"],
          [json |-> FALSE, command |-> "", sessionId |-> "default", path |-> "~"]}

AnyOracle == CHOOSE o \in OracleAnswers : TRUE
AnyHost == CHOOSE h \in HostAnswers : TRUE

\* the request takes the natural-language branch of handle_command
IsNatural(req) ==
    /\ req.json
    /\ Len(Strip(req.command)) <= MaxRequestLength
    /\ FirstToken(req.command) \notin {"ls", "cd", "pwd", "help", "clear"}
    /\ ~(FirstToken(req.command) = "dir" /\ IS_WINDOWS)

\* the oracle's answers tried for a request: all of them where it can be asked
OracleChoices(req) == IF IsNatural(req) /\ AI_ENABLED THEN OracleAnswers ELSE {AnyOracle}

\* the host's answers tried for a request: all of them where a command can be run
HostChoices(req) == IF IsNatural(req) /\ AI_ENABLED THEN HostAnswers ELSE {AnyHost}

InitPipeline ==
    /\ match_cache = MatchTable
    /\ AI_ENABLED \in BOOLEAN
    /\ IS_WINDOWS \in BOOLEAN
    /\ session_contexts = EmptyMap
    /\ clock = 0
    /\ log = EmptyMap
    /\ last = NoLast
    /\ val = NoVal /\ proc = NoProc /\ race = NoRace /\ direct = <<>>
    /\ mode = "pipeline"

\* one request, handled from receipt to response
HandleCommand(req, oracle, host) ==
    /\ mode = "pipeline"
    /\ clock < MaxRequests
    /\ \E h \in {handle_command(req, session_contexts, clock + 1, oracle, host)} :
        /\ session_contexts' = h.ctxs
        /\ last' = [request |-> req,
                    oracle |-> IF h.trace.oracle_called THEN oracle
                               ELSE [kind |-> "none", text |-> ""],
                    response |-> h.response, trace |-> h.trace, prompt |-> h.prompt]
    /\ clock' = clock + 1
    /\ UNCHANGED <<configVars, log, scenarioVars, mode>>

NextPipeline ==
    /\ mode = "pipeline"
    /\ clock < MaxRequests
    /\ \E req \in PipeRequests :
        \E oracle \in OracleChoices(req) :
            \E host \in HostChoices(req) : HandleCommand(req, oracle, host)

Init == InitPipeline
Next == NextPipeline
Spec == Init /\ [][Next]_vars

\* the request just handled took the natural-language branch of handle_command
TookNaturalBranch == clock > 0 /\ IsNatural(last.request)

\* C1: every command that reaches execute_system_command was first found safe by
\* validate_command_security, whether the command was built from a pattern or
\* generated by the oracle.
C1_ExecutedWasValidated ==
    \A i \in 1..Len(last.trace.executed) :
        /\ \E j \in 1..Len(last.trace.validated) :
               last.trace.validated[j] = last.trace.executed[i]
        /\ validate_command_security(last.trace.executed[i]).safe

\* C3: a command that contains a deny-listed fragment, in any letter case and whatever
\* its first token, is found unsafe with a reason naming the fragment, and no process
\* is started for it.
C3_DenyListedNeverRuns ==
    \A i \in 1..Len(last.trace.executed) :
        LET command == last.trace.executed[i] IN
        DangerousHits(command) # {} =>
            /\ ~validate_command_security(command).safe
            /\ \E k \in DangerousHits(command) :
                   Contains(validate_command_security(command).reason,
                            dangerous_patterns[k])
            /\ ~last.trace.spawned

\* C9: for a natural-language request whose input matches an intent without a built-in
\* handler, whatever the session id and whether or not the oracle is configured, the
\* command run is the builder's rendering of that intent and the oracle is not called.
C9_MatchedNeverAsksOracle ==
    LET m == Matched(Strip(last.request.command)) IN
    (TookNaturalBranch /\ m.cmd_type # None /\ ~COMMAND_PATTERNS[m.idx].builtin_override)
        => /\ ~last.trace.oracle_called
           /\ last.trace.executed =
                  <<build_smart_command(m.cmd_type, m.params, COMMAND_PATTERNS[m.idx],
                                        IS_WINDOWS)>>

\* C10: the request 'delete everything' never ends in a run of the executor: its result
\* is a refusal or a security rejection, no process is started and no text of a failed
\* execution is returned.
C10_DeleteEverythingRefused ==
    (clock > 0 /\ last.request.json /\ Strip(last.request.command) = "delete everything")
        => /\ last.trace.executed = <<>>
           /\ ~last.trace.spawned
           /\ last.response.kind = "error"

\* C11: a natural-language request whose input matches the intent flagged builtin-only
\* (change_directory) renders no template, runs no command and starts no process: it
\* ends in the directory-change logic, applied to the first captured parameter.
C11_BuiltinOnlyRouted ==
    LET m == Matched(Strip(last.request.command)) IN
    (TookNaturalBranch /\ m.cmd_type # None /\ COMMAND_PATTERNS[m.idx].builtin_override)
        => /\ last.trace.builder_calls = 0
           /\ last.trace.executed = <<>>
           /\ ~last.trace.spawned
           /\ \/ /\ last.response.kind = "output"
                 /\ last.response.new_path =
                        AbsPath(PathJoin(ResolvePath(last.request.path), m.params[1]))
              \/ /\ last.response.kind = "error"
                 /\ EndsWith(last.response.text, "Directory not found: " \o m.params[1])

\* C13: the request 'create file test.py', which the help text documents, is matched to
\* the create_file intent with test.py as the filename and runs the platform's
\* file-creation command for test.py (oracle configured, session id given).
C13_CreateFileResolved ==
    (/\ clock > 0 /\ last.request.json /\ AI_ENABLED /\ Truthy(last.request.sessionId)
     /\ Strip(last.request.command) = "create file test.py")
        => /\ Matched("create file test.py").cmd_type = "create_file"
           /\ Matched("create file test.py").params = <<"test.py">>
           /\ last.trace.executed =
                  << IF IS_WINDOWS THEN "type nul > \"test.py\"" ELSE "touch \"test.py\"" >>

\* the oracle was asked and its cleaned answer begins with the refusal sentinel
Refused ==
    /\ clock > 0
    /\ last.trace.oracle_called
    /\ last.oracle.kind = "text"
    /\ StartsWith(CleanResponse(last.oracle.text), "Error:")

\* C14: when the cleaned answer of the oracle begins with the refusal sentinel, the
\* request ends with that text as an error; the text is not validated as a command and
\* not passed to the executor.
C14_RefusalIsError ==
    Refused => /\ last.response = Error(CleanResponse(last.oracle.text),
                                        ResolvePath(last.request.path))
               /\ last.trace.validated = <<>>
               /\ last.trace.executed = <<>>
               /\ ~last.trace.spawned

C14_Witness == Refused /\ last.response.kind = "error"

\* C15: a request whose command is missing, empty or longer than the size limit is
\* rejected with an error before the pipeline: the matcher, the oracle, the validator
\* and the executor are not invoked for it.
C15_MalformedRejected ==
    (clock > 0 /\ (\/ ~last.request.json
                   \/ Strip(last.request.command) = ""
                   \/ Len(Strip(last.request.command)) > MaxRequestLength))
        => /\ last.response.kind = "error"
           /\ last.trace = NoTrace

\* the directory a request asks to change to, through the 'cd' builtin or through the
\* change_directory intent; None for a request that is no directory change
ChangeTarget(req) ==
    LET command_full == Strip(req.command)
        parts == Split(command_full)
        current_path == ResolvePath(req.path)
    IN IF ~req.json \/ Len(command_full) > MaxRequestLength THEN None
       ELSE IF FirstToken(command_full) = "cd"
       THEN (IF Len(parts) < 2 THEN HomeDir ELSE AbsPath(PathJoin(current_path, parts[2])))
       ELSE IF /\ IsNatural(req)
               /\ Matched(command_full).cmd_type = "change_directory"
               /\ Matched(command_full).params # <<>>
       THEN AbsPath(PathJoin(current_path, Matched(command_full).params[1]))
       ELSE None

\* C16 as claimed: the working directory returned is the caller's (resolved) unless the
\* request is a successful directory change; every error carries the caller's working
\* directory.
C16_PathUnchangedUnlessCd ==
    clock > 0 =>
        \/ last.response.new_path = ResolvePath(last.request.path)
        \/ /\ last.response.kind = "output"
           /\ ChangeTarget(last.request) # None
           /\ last.response.new_path = ChangeTarget(last.request)

\* C16: the working directory returned is the caller's (resolved) unless the request is
\* a successful directory change, whatever the requests before it were; the rejection
\* of a malformed request (status 400) carries no working directory.
C16_PathEchoed ==
    clock > 0 =>
        \/ /\ last.response.status = 400
           /\ last.response.kind = "error"
           /\ last.response.new_path = None
           /\ ~last.request.json \/ Len(Strip(last.request.command)) > MaxRequestLength
        \/ /\ last.response.status = 200
           /\ last.response.new_path = ResolvePath(last.request.path)
        \/ /\ last.response.status = 200
           /\ last.response.kind = "output"
           /\ ChangeTarget(last.request) # None
           /\ last.response.new_path = ChangeTarget(last.request)

\* a directory change to docs was recorded for the session and the next request, pwd
\* with the caller's path '~', is answered with the home directory
C16_Witness ==
    /\ clock = 2
    /\ "default" \in DOMAIN session_contexts
    /\ Len(session_contexts["default"].command_history) = 2
    /\ session_contexts["default"].command_history[1].operation_type = "change_directory"
    /\ last.request.command = "pwd" /\ last.request.path = "~"
    /\ last.response.new_path = HomeDir

\* the positions in the history of context c of the updates that denote a listing
Listings(c) ==
    {i \in 1..Len(c.command_history) :
        c.command_history[i].operation_type \in {"list_files", "list_hidden"}}

\* C19: in every session, current_files holds the names parsed from the output of the
\* most recent update that denotes a listing, at most 20 of them, so it is empty when
\* that output was empty; updates of another type leave it as it was (no update is
\* evicted from the history within MaxRequests requests).
C19_FilesFromLastListing ==
    \A sid \in DOMAIN session_contexts :
        LET c == session_contexts[sid] IN
        /\ Len(c.current_files) <= MaxCurrentFiles
        /\ c.current_files =
              IF Listings(c) = {} THEN <<>>
              ELSE ParseFiles(c.output_history[Max(Listings(c))])

\* the context of session sid in the session map ctxs; a session that does not exist
\* holds what a new context holds
ContextOf(ctxs, sid) == IF sid \in DOMAIN ctxs THEN ctxs[sid] ELSE NewContext

\* C20: a request that ends in a rejection or an oracle error (validation failed,
\* oracle disabled or failing, refusal) leaves every session's command history,
\* output history, last operation and current files as they were; a session changes
\* only in a request whose command was run or that a builtin handled.
C20_RejectionKeepsSession ==
    [][\A sid \in DOMAIN session_contexts' :
          /\ (/\ IsNatural(last'.request)
              /\ last'.response.kind = "error"
              /\ last'.trace.executed = <<>>)
                 => ContextOf(session_contexts', sid) = ContextOf(session_contexts, sid)
          /\ ContextOf(session_contexts', sid) # ContextOf(session_contexts, sid)
                 => /\ last'.response.kind = "output"
                    /\ \/ last'.trace.executed # <<>>
                       \/ ~IsNatural(last'.request)
                       \/ ChangeTarget(last'.request) # None]_vars

\* a request refused by the validator, in a session that holds one earlier entry
C20_Witness ==
    /\ clock = 2
    /\ IsNatural(last.request)
    /\ last.response.kind = "error"
    /\ last.trace.validated # <<>>
    /\ last.trace.executed = <<>>
    /\ last.request.sessionId \in DOMAIN session_contexts
    /\ Len(session_contexts[last.request.sessionId].command_history) = 1

(***************************************************************************)
(* SpecDirect: match_command_pattern and build_smart_command called        *)
(* directly, a few calls one after the other                               *)
(***************************************************************************)

\* number of direct calls in a run
MaxCalls == 2

\* the queries the matcher is called with (handle_command passes the command stripped)
MatchQueries == {
    "show all files", "SHOW ALL FILES", "show hidden files", "how many files",
    "read README.md", "create folder MyDocs", "copy file.txt to backup.txt",
    "size of a.txt", "touch a.txt", "go to docs", "what time is it", "" }

\* the parameter lists the builder is called with
BuildParams == {<<>>, <<"a.txt">>, <<"a.txt", "b.txt">>, <<"python">>}

InitDirect ==
    /\ match_cache = [q \in MatchQueries |-> match_command_pattern(q)]
    /\ AI_ENABLED = TRUE
    /\ IS_WINDOWS \in BOOLEAN
    /\ session_contexts = EmptyMap
    /\ clock = 0
    /\ log = EmptyMap
    /\ last = NoLast
    /\ val = NoVal /\ proc = NoProc /\ race = NoRace
    /\ direct = <<>>
    /\ mode = "direct"

\* match_command_pattern(query)
MatchCall(query) ==
    /\ mode = "direct"
    /\ Len(direct) < MaxCalls
    /\ direct' = Append(direct, [fn |-> "match_command_pattern", query |-> query,
                                 m |-> Matched(query), command |-> None])
    /\ UNCHANGED <<configVars, requestVars, val, proc, race, mode>>

\* build_smart_command(cmd_type, params, cmd_info) for the intent at position i
BuildCall(i, params) ==
    /\ mode = "direct"
    /\ Len(direct) < MaxCalls
    /\ direct' = Append(direct,
           [fn |-> "build_smart_command", query |-> "",
            m |-> [cmd_type |-> COMMAND_PATTERNS[i].name, params |-> params, idx |-> i],
            command |-> build_smart_command(COMMAND_PATTERNS[i].name, params,
                                            COMMAND_PATTERNS[i], IS_WINDOWS)])
    /\ UNCHANGED <<configVars, requestVars, val, proc, race, mode>>

NextDirect ==
    \/ \E query \in MatchQueries : MatchCall(query)
    \/ \E i \in 1..Len(COMMAND_PATTERNS) : \E params \in BuildParams : BuildCall(i, params)

SpecDirect == InitDirect /\ [][NextDirect]_vars

\* re.search(pattern, query, re.IGNORECASE) for pattern k of the intent at position i
Searched(i, k, query) == re_search(Patterns(i)[k], query)

\* C12: a call of match_command_pattern returns the first intent, in table order, one
\* of whose patterns matches the input in a case-insensitive partial search, with the
\* groups the first matching pattern of that intent captures in the input; the
\* no-intent sentinel when no pattern matches; the same result for the same input
\* whatever was called before, and no state is changed.
C12_FirstMatchInTableOrder ==
    (direct # <<>> /\ direct[Len(direct)].fn = "match_command_pattern") =>
        LET q == direct[Len(direct)].query
            r == direct[Len(direct)].m
        IN /\ r.cmd_type = None =>
                  /\ r = NoIntent
                  /\ \A i \in 1..Len(COMMAND_PATTERNS) :
                         \A k \in 1..Len(Patterns(i)) : Searched(i, k, q).e = 0
           /\ r.cmd_type # None =>
                  /\ r.cmd_type = COMMAND_PATTERNS[r.idx].name
                  /\ \A i \in 1..(r.idx - 1) :
                         \A k \in 1..Len(Patterns(i)) : Searched(i, k, q).e = 0
                  /\ \E k \in 1..Len(Patterns(r.idx)) :
                         /\ Searched(r.idx, k, q).e # 0
                         /\ \A j \in 1..(k - 1) : Searched(r.idx, j, q).e = 0
                         /\ r.params = Searched(r.idx, k, q).caps
           /\ \A n \in 1..Len(direct) :
                  (direct[n].fn = "match_command_pattern" /\ direct[n].query = q)
                      => direct[n].m = r
           /\ session_contexts = EmptyMap /\ log = EmptyMap /\ clock = 0

\* C18: build_smart_command called with an empty parameter list for an intent whose
\* template has a named placeholder (and that is not builtin-only) renders the
\* template with the intent's fallback value: the command has no unrendered
\* placeholder and no empty value.
C18_FallbackSubstituted ==
    (/\ direct # <<>>
     /\ direct[Len(direct)].fn = "build_smart_command"
     /\ direct[Len(direct)].m.params = <<>>
     /\ ~COMMAND_PATTERNS[direct[Len(direct)].m.idx].builtin_override
     /\ Contains(IF IS_WINDOWS THEN COMMAND_PATTERNS[direct[Len(direct)].m.idx].windows_cmd
                 ELSE COMMAND_PATTERNS[direct[Len(direct)].m.idx].unix_cmd, "{"))
        => /\ direct[Len(direct)].command # None
           /\ ~Contains(direct[Len(direct)].command, "{")
           /\ ~Contains(direct[Len(direct)].command, "}")
           /\ ~Contains(direct[Len(direct)].command, "\"\"")
====
